---------------------------- MODULE Spec2Model ----------------------------
(***************************************************************************)
(* A model of the dialogue runtime: the resolver, the bytecode compiler,   *)
(* the stack VM and the Runtime facade that drives it, and the scanner.    *)
(*                                                                         *)
(* Scripts are drawn from a bounded family of sources (sequences of        *)
(* indented lines).  Each is parsed, resolved and compiled by operators    *)
(* translated from parser.rs, resolver.rs and compiler.rs, and the chunk   *)
(* is run by the VM under a host that may call advance and select_choice   *)
(* in any order.                                                           *)
(***************************************************************************)
EXTENDS Integers, Sequences, FiniteSets, TLC

VARIABLES
    source,           \* Runtime.source: the script, as lines
    chunk,            \* VM.chunk: [code, constants, lines]
    ip,               \* VM.ip
    stack,            \* VM.stack
    storage,          \* the VariableStorage contents: name -> Value or Absent
    current_line,     \* Runtime.current_line: None or Some(string)
    current_choices,  \* Runtime.current_choices: None or Some(strings)
    is_done,          \* Runtime.is_done
    status,           \* "ready", or "panicked" / "failed": no Runtime to call
    overflow_checks,  \* the build, once an overflow showed it: "on" panics, "off" wraps
    last,             \* the last facade call, what it returned, did it run the VM
    trace,            \* history: the yields so far, as [k, pos, texts, storage]
    sels,             \* history: the selections that took effect
    misuse,           \* history: the host broke the calling protocol
    errored,          \* history: some call returned a RuntimeError
    scanner,          \* the Scanner the token iterator owns
    scanned,          \* what the last scan_token call returned, None before
    calls,            \* history: the scan_token calls made
    resolver,         \* the Resolver during analyze
    pending           \* the statements and scope exits analyze has yet to do

vars == <<source, chunk, ip, stack, storage, current_line, current_choices,
          is_done, status, overflow_checks, last, trace, sels, misuse, errored,
          scanner, scanned, calls, resolver, pending>>

(***************************************************************************)
(* Bounds of the model.                                                    *)
(***************************************************************************)
MaxNodes == 4      \* lines (statements and choices) in a script
MaxChoices == 2    \* choices in one choice set
MaxPieces == 4     \* pieces (keywords, markers, characters) in a source text
MaxCalls == 12     \* scan_token calls on one scanner

Names == {"a", "b"}

\* Option: None, or Some(x).  Absent: what a lookup finds for a missing name.
None == [t |-> "None"]
Some(x) == [t |-> "Some", v |-> x]
Absent == [t |-> "Absent"]

(***************************************************************************)
(* Sequence helpers.                                                       *)
(***************************************************************************)
Last(s) == s[Len(s)]

IsPrefix(s, t) == Len(s) <= Len(t) /\ SubSeq(t, 1, Len(s)) = s

Truncate(s, n) == IF n >= Len(s) THEN s ELSE SubSeq(s, 1, n)

\* A map is a function on its set of keys; Put overwrites.
Put(m, k, v) == [x \in (DOMAIN m) \cup {k} |-> IF x = k THEN v ELSE m[x]]

EmptyMap == [x \in {} |-> 0]

(***************************************************************************)
(* chunk.rs: Value and its rendering.                                      *)
(***************************************************************************)
StringV(s) == [t |-> "String", s |-> s]
NumberV(n) == [t |-> "Number", n |-> n]
BoolV(b) == [t |-> "Bool", b |-> b]

Digit(d) ==
    CASE d = 0 -> "0" [] d = 1 -> "1" [] d = 2 -> "2" [] d = 3 -> "3"
      [] d = 4 -> "4" [] d = 5 -> "5" [] d = 6 -> "6" [] d = 7 -> "7"
      [] d = 8 -> "8" [] d = 9 -> "9"

RECURSIVE IntToStr(_)
IntToStr(n) ==
    IF n < 0 THEN "-" \o IntToStr(0 - n)
    ELSE IF n < 10 THEN Digit(n)
    ELSE IntToStr(n \div 10) \o Digit(n % 10)

\* Value::to_string_value.  The numbers of the model are integers, which
\* format without a decimal point.
to_string_value(v) ==
    CASE v.t = "String" -> v.s
      [] v.t = "Number" -> IntToStr(v.n)
      [] v.t = "Bool" -> IF v.b THEN "true" ELSE "false"

(***************************************************************************)
(* resolver.rs.  The resolver state is a record                            *)
(*   scopes      sequence of [variables: name -> [slot, span], start_slot] *)
(*   save_vars, extern_vars   name -> declaration span                     *)
(*   next_slot                                                             *)
(*   bindings, save_bindings, extern_bindings   NodeId -> slot / name      *)
(*   errors      sequence of SemanticError                                 *)
(***************************************************************************)
ResolverNew ==
    [scopes |-> <<[variables |-> EmptyMap, start_slot |-> 0]>>,
     save_vars |-> EmptyMap,
     extern_vars |-> EmptyMap,
     next_slot |-> 0,
     bindings |-> EmptyMap,
     save_bindings |-> EmptyMap,
     extern_bindings |-> EmptyMap,
     errors |-> <<>>]

\* The resolver before analyze is called, or of a run that does not
\* follow it: the resolution is followed on its own, in SpecResolve.
ResolverIdle == resolver = ResolverNew /\ pending = <<>>

Shadowing(name, span, original) ==
    [k |-> "Shadowing", name |-> name, span |-> span, original |-> original]
UndefinedVariable(name, span) ==
    [k |-> "UndefinedVariable", name |-> name, span |-> span]
AssignmentToExtern(name, span) ==
    [k |-> "AssignmentToExtern", name |-> name, span |-> span]

PushError(r, e) == [r EXCEPT !.errors = Append(@, e)]

\* The indexes of the scopes, among those in idxs, that declare name.
ScopesWith(r, name, idxs) ==
    {i \in idxs : name \in DOMAIN r.scopes[i].variables}

Max(S) == CHOOSE x \in S : \A y \in S : y <= x
Min(S) == CHOOSE x \in S : \A y \in S : x <= y

\* push_scope recording 0 as the slot count of the new scope.
push_scope_from_zero(r) ==
    [r EXCEPT !.scopes = Append(@, [variables |-> EmptyMap, start_slot |-> 0])]

push_scope(r) ==
    [r EXCEPT !.scopes =
        Append(@, [variables |-> EmptyMap, start_slot |-> r.next_slot])]

\* pop_scope that does not give the slots of the scope back.
pop_scope_keeping_slots(r) ==
    IF r.scopes = <<>> THEN r
    ELSE [r EXCEPT !.scopes = SubSeq(@, 1, Len(@) - 1)]

pop_scope(r) ==
    IF r.scopes = <<>> THEN r
    ELSE [r EXCEPT !.scopes = SubSeq(@, 1, Len(@) - 1),
                   !.next_slot = Last(r.scopes).start_slot]

declare_temp(r, id, name, span) ==
    LET n == Len(r.scopes)
        outer == ScopesWith(r, name, 1..(n - 1))
    IN
    IF name \in DOMAIN r.save_vars
        THEN PushError(r, Shadowing(name, span, r.save_vars[name]))
    ELSE IF name \in DOMAIN r.extern_vars
        THEN PushError(r, Shadowing(name, span, r.extern_vars[name]))
    ELSE IF outer # {}
        \* iter().rev().skip(1): the innermost enclosing scope first
        THEN PushError(r, Shadowing(name, span,
                          r.scopes[Max(outer)].variables[name].span))
    ELSE IF name \in DOMAIN r.scopes[n].variables
        THEN PushError(r, Shadowing(name, span,
                          r.scopes[n].variables[name].span))
    ELSE [r EXCEPT
            !.next_slot = @ + 1,
            !.scopes[n].variables =
                Put(@, name, [slot |-> r.next_slot, span |-> span]),
            !.bindings = Put(@, id, r.next_slot)]

declare_save(r, id, name, span) ==
    LET inScopes == ScopesWith(r, name, 1..Len(r.scopes))
    IN
    IF name \in DOMAIN r.save_vars
        THEN PushError(r, Shadowing(name, span, r.save_vars[name]))
    ELSE IF name \in DOMAIN r.extern_vars
        THEN PushError(r, Shadowing(name, span, r.extern_vars[name]))
    ELSE IF inScopes # {}
        \* for scope in &self.scopes: the outermost scope first
        THEN PushError(r, Shadowing(name, span,
                          r.scopes[Min(inScopes)].variables[name].span))
    ELSE [r EXCEPT
            !.save_vars = Put(@, name, span),
            !.save_bindings = Put(@, id, name)]

declare_extern(r, id, name, span) ==
    LET inScopes == ScopesWith(r, name, 1..Len(r.scopes))
    IN
    IF name \in DOMAIN r.extern_vars
        THEN PushError(r, Shadowing(name, span, r.extern_vars[name]))
    ELSE IF name \in DOMAIN r.save_vars
        THEN PushError(r, Shadowing(name, span, r.save_vars[name]))
    ELSE IF inScopes # {}
        THEN PushError(r, Shadowing(name, span,
                          r.scopes[Min(inScopes)].variables[name].span))
    ELSE [r EXCEPT !.extern_vars = Put(@, name, span)]

\* resolve_reference binding every declared name as a temp, in slot 0.
resolve_reference_as_temp(r, id, name, span, for_write) ==
    IF /\ ScopesWith(r, name, 1..Len(r.scopes)) = {}
       /\ name \notin DOMAIN r.save_vars
       /\ name \notin DOMAIN r.extern_vars
        THEN PushError(r, UndefinedVariable(name, span))
        ELSE [r EXCEPT !.bindings = Put(@, id, 0)]

resolve_reference(r, id, name, span, for_write) ==
    LET inScopes == ScopesWith(r, name, 1..Len(r.scopes))
    IN
    IF inScopes # {}
        \* innermost to outermost
        THEN [r EXCEPT !.bindings =
                Put(@, id, r.scopes[Max(inScopes)].variables[name].slot)]
    ELSE IF name \in DOMAIN r.save_vars
        THEN [r EXCEPT !.save_bindings = Put(@, id, name)]
    ELSE IF name \in DOMAIN r.extern_vars
        THEN IF for_write
                THEN PushError(r, AssignmentToExtern(name, span))
                ELSE [r EXCEPT !.extern_bindings = Put(@, id, name)]
    ELSE PushError(r, UndefinedVariable(name, span))

\* The span of an interpolation stands for itself by its NodeId: the
\* resolver only copies it into the error it reports.
RECURSIVE resolve_text_parts(_, _)
resolve_text_parts(r, parts) ==
    IF parts = <<>> THEN r
    ELSE
        LET p == Head(parts)
            r1 == IF p.k = "VarRef"
                    THEN resolve_reference(r, p.id, p.name, p.id, FALSE)
                    ELSE r
        IN resolve_text_parts(r1, Tail(parts))

RECURSIVE resolve_block(_, _), resolve_choice_texts(_, _),
          resolve_choice_branches(_, _)

resolve_stmt(r, stmt) ==
    CASE stmt.k = "Temp" -> declare_temp(r, stmt.id, stmt.name, stmt.pos)
      [] stmt.k = "Save" -> declare_save(r, stmt.id, stmt.name, stmt.pos)
      [] stmt.k = "Extern" -> declare_extern(r, stmt.id, stmt.name, stmt.pos)
      [] stmt.k = "Set" ->
            resolve_reference(r, stmt.id, stmt.name, stmt.pos, TRUE)
      [] stmt.k = "Line" -> resolve_text_parts(r, stmt.parts)
      [] stmt.k = "ChoiceSet" ->
            resolve_choice_branches(
                resolve_choice_texts(r, stmt.choices), stmt.choices)

\* for stmt in statements { self.resolve_stmt(stmt) }
resolve_block(r, stmts) ==
    IF stmts = <<>> THEN r
    ELSE resolve_block(resolve_stmt(r, Head(stmts)), Tail(stmts))

resolve_choice_texts(r, choices) ==
    IF choices = <<>> THEN r
    ELSE resolve_choice_texts(
            resolve_text_parts(r, Head(choices).parts), Tail(choices))

\* resolve_choice_branch for each choice: push_scope, the body, pop_scope.
resolve_choice_branches(r, choices) ==
    IF choices = <<>> THEN r
    ELSE resolve_choice_branches(
            pop_scope(resolve_block(push_scope(r), Head(choices).nested)),
            Tail(choices))

\* Resolver::analyze: the state after the walk; the symbol table is its
\* three binding maps, returned when errors is empty.
analyze(script) == resolve_block(ResolverNew, script)

(***************************************************************************)
(* The scripts.  A source is a sequence of lines, each at an indentation   *)
(* depth: a dialogue line (a literal segment, optionally followed by one   *)
(* interpolation), a temp or save declaration, an assignment, or a choice  *)
(* (the marker and a literal text) whose body is the deeper lines below.   *)
(***************************************************************************)
SrcLine(depth, k, name) == [depth |-> depth, k |-> k, name |-> name]

LineKinds ==
    {[k |-> "Line", name |-> ""], [k |-> "Choice", name |-> ""]}
        \cup {[k |-> k, name |-> n] :
                k \in {"Line", "Temp", "Save", "Set"}, n \in Names}

\* The choices that end src and belong to one choice set at depth: the
\* deeper lines between them are their bodies.
RECURSIVE ChoiceRun(_, _, _)
ChoiceRun(src, i, depth) ==
    IF i = 0 THEN 0
    ELSE IF src[i].depth > depth THEN ChoiceRun(src, i - 1, depth)
    ELSE IF src[i].depth = depth /\ src[i].k = "Choice"
        THEN 1 + ChoiceRun(src, i - 1, depth)
    ELSE 0

\* The lines that can follow src: at most one level deeper than a choice,
\* no deeper than any other line, and no more than MaxChoices choices in a
\* choice set.
NextLinesOf(src, kinds) ==
    LET deepest == IF src = <<>> THEN 0
                   ELSE IF Last(src).k = "Choice" THEN Last(src).depth + 1
                   ELSE Last(src).depth
    IN {l \in {SrcLine(d, lk.k, lk.name) : d \in 0..deepest, lk \in kinds} :
            l.k = "Choice" => ChoiceRun(src, Len(src), l.depth) < MaxChoices}

NextLines(src) == NextLinesOf(src, LineKinds)

(***************************************************************************)
(* parser.rs, by line.  Every statement carries its span (pos stands for   *)
(* span.start: the number of its line) and every declaration, assignment   *)
(* and interpolation a fresh NodeId, stamped in source order as            *)
(* Parser::next_id does.  The literal of a declaration or an assignment is *)
(* a number no other literal of the script has, so that a rendered value   *)
(* names the statement it came from; the literal segment of a text names   *)
(* its line.                                                               *)
(***************************************************************************)
Literal(text) == [k |-> "Literal", text |-> text]
VarRef(id, name) == [k |-> "VarRef", id |-> id, name |-> name]

\* parse_text_parts
TextParts(prefix, pos, id, ref) ==
    IF ref = "" THEN <<Literal(prefix \o IntToStr(pos))>>
    ELSE <<Literal(prefix \o IntToStr(pos)), VarRef(id, ref)>>

\* The NodeIds one line takes.
IdsOf(l) == IF l.name = "" THEN 0 ELSE 1

\* line_statement, temp_declaration, save_declaration, assignment
StmtOf(l, pos, id) ==
    IF l.k = "Line"
        THEN [k |-> "Line", parts |-> TextParts("L", pos, id, l.name),
              pos |-> pos]
        ELSE [k |-> l.k, id |-> id, name |-> l.name, value |-> NumberV(id),
              pos |-> pos]

RECURSIVE ParseBlock(_, _, _, _), ParseChoices(_, _, _, _)

\* The statements of one block: from line i on, the lines at depth, to
\* the first shallower line (the Dedent) or the end.  [out, i, id] with
\* the next line and the next NodeId.
ParseBlock(src, i, depth, id) ==
    IF i > Len(src) \/ src[i].depth < depth
        THEN [out |-> <<>>, i |-> i, id |-> id]
    ELSE IF src[i].k = "Choice"
        THEN LET cs == ParseChoices(src, i, depth, id)
                 rest == ParseBlock(src, cs.i, depth, cs.id)
             IN [out |-> <<[k |-> "ChoiceSet", choices |-> cs.out]>>
                            \o rest.out,
                 i |-> rest.i, id |-> rest.id]
    ELSE LET rest == ParseBlock(src, i + 1, depth, id + IdsOf(src[i]))
         IN [out |-> <<StmtOf(src[i], i, id)>> \o rest.out,
             i |-> rest.i, id |-> rest.id]

\* choice_set: the marker and the text of a choice, its nested content
\* (parse_nested_content: the block after an Indent), and so on while the
\* next token is a Choice.
ParseChoices(src, i, depth, id) ==
    LET id1 == id + IdsOf(src[i])
        nested == IF i + 1 <= Len(src) /\ src[i + 1].depth > depth
                    THEN ParseBlock(src, i + 1, depth + 1, id1)
                    ELSE [out |-> <<>>, i |-> i + 1, id |-> id1]
        choice == [parts |-> TextParts("c", i, id, src[i].name), pos |-> i,
                   nested |-> nested.out]
        more == nested.i <= Len(src) /\ src[nested.i].depth = depth
                    /\ src[nested.i].k = "Choice"
        rest == IF more THEN ParseChoices(src, nested.i, depth, nested.id)
                ELSE [out |-> <<>>, i |-> nested.i, id |-> nested.id]
    IN [out |-> <<choice>> \o rest.out, i |-> rest.i, id |-> rest.id]

\* Parser::parse
parse(src) == ParseBlock(src, 1, 0, 0).out

(***************************************************************************)
(* The sources of at most MaxNodes lines that parse and resolve, built     *)
(* line by line: the resolver never takes an error back, so a source       *)
(* resolves only if the lines before its last do.                          *)
(***************************************************************************)
Resolves(src) == analyze(parse(src)).errors = <<>>

RECURSIVE SourcesUpTo(_)
SourcesUpTo(n) ==
    IF n = 0 THEN {<<>>}
    ELSE LET shorter == SourcesUpTo(n - 1)
         IN shorter \cup
            {src \in UNION {{Append(p, l) : l \in NextLines(p)} :
                                p \in {q \in shorter : Len(q) = n - 1}} :
                Resolves(src)}

\* The same, with choices whose text shows a variable.
ChoiceKinds == {[k |-> "Choice", name |-> n] : n \in Names}

RECURSIVE SourcesWithChoiceTexts(_)
SourcesWithChoiceTexts(n) ==
    IF n = 0 THEN {<<>>}
    ELSE LET shorter == SourcesWithChoiceTexts(n - 1)
         IN shorter \cup
            {src \in UNION {{Append(p, l) :
                                l \in NextLinesOf(p, LineKinds \cup ChoiceKinds)} :
                                p \in {q \in shorter : Len(q) = n - 1}} :
                Resolves(src)}

ValidSources == SourcesUpTo(MaxNodes)

(***************************************************************************)
(* chunk.rs: Instruction and Chunk.  Offsets, slots and constant indexes   *)
(* count from 0 as in the source; At reads a 0-based position.             *)
(***************************************************************************)
Constant(index) == [op |-> "Constant", index |-> index]
GetLocal(slot) == [op |-> "GetLocal", slot |-> slot]
SetLocal(slot) == [op |-> "SetLocal", slot |-> slot]
Concat(count) == [op |-> "Concat", count |-> count]
LineI == [op |-> "Line"]
ChoiceSetI(count, targets) ==
    [op |-> "ChoiceSet", count |-> count, targets |-> targets]
Jump(target) == [op |-> "Jump", target |-> target]
InitStorage(name) == [op |-> "InitStorage", name |-> name]
GetStorage(name) == [op |-> "GetStorage", name |-> name]
SetStorage(name) == [op |-> "SetStorage", name |-> name]
GetHost(name) == [op |-> "GetHost", name |-> name]
Return == [op |-> "Return"]

At(s, i) == s[i + 1]
SetAt(s, i, v) == [s EXCEPT ![i + 1] = v]

ChunkNew == [code |-> <<>>, constants |-> <<>>, lines |-> <<>>]

emit(c, instruction, line) ==
    [c EXCEPT !.code = Append(@, instruction), !.lines = Append(@, line)]

\* add_constant: the chunk with the value pushed, and its index.
add_constant(c, value) ==
    [chunk |-> [c EXCEPT !.constants = Append(@, value)],
     index |-> Len(c.constants)]

current_offset(c) == Len(c.code)

\* patch_jump panics on a non-Jump; the compiler only passes Jump offsets.
patch_jump(c, offset, target) ==
    [c EXCEPT !.code = SetAt(@, offset, Jump(target))]

\* patch_jumps sending every branch on to the instruction after its Jump.
RECURSIVE patch_jumps_falling_through(_, _, _)
patch_jumps_falling_through(c, offsets, target) ==
    IF offsets = <<>> THEN c
    ELSE patch_jumps_falling_through(
            patch_jump(c, Head(offsets), Head(offsets) + 1),
            Tail(offsets), target)

RECURSIVE patch_jumps(_, _, _)
patch_jumps(c, offsets, target) ==
    IF offsets = <<>> THEN c
    ELSE patch_jumps(patch_jump(c, Head(offsets), target), Tail(offsets), target)

\* patch_choice_targets sending every choice back to the ChoiceSet itself.
patch_choice_targets_on_itself(c, offset, new_targets) ==
    [c EXCEPT !.code =
        SetAt(@, offset,
              ChoiceSetI(At(c.code, offset).count,
                         [i \in 1..Len(new_targets) |-> offset]))]

\* patch_choice_targets leaving the placeholder targets of the ChoiceSet.
patch_choice_targets_skipped(c, offset, new_targets) == c

patch_choice_targets(c, offset, new_targets) ==
    [c EXCEPT !.code =
        SetAt(@, offset, ChoiceSetI(At(c.code, offset).count, new_targets))]

(***************************************************************************)
(* compiler.rs.  symbols is the resolver state (its three binding maps).   *)
(***************************************************************************)
get_slot(symbols, id) == symbols.bindings[id]

emit_var_read(c, symbols, id, line) ==
    IF id \in DOMAIN symbols.save_bindings
        THEN emit(c, GetStorage(symbols.save_bindings[id]), line)
        ELSE emit(c, GetLocal(get_slot(symbols, id)), line)

\* emit_var_write emitting nothing: the value assigned stays on the stack.
emit_var_write_dropped(c, symbols, id, line) == c

emit_var_write(c, symbols, id, line) ==
    IF id \in DOMAIN symbols.save_bindings
        THEN emit(c, SetStorage(symbols.save_bindings[id]), line)
        ELSE emit(c, SetLocal(get_slot(symbols, id)), line)

compile_literal(c, value, line) ==
    LET k == add_constant(c, value)
    IN emit(k.chunk, Constant(k.index), line)

\* The parts of a text are emitted at the position of their statement: the
\* model keeps one position per statement, not one per part.
RECURSIVE compile_parts(_, _, _, _)
compile_parts(c, symbols, parts, line) ==
    IF parts = <<>> THEN c
    ELSE
        LET p == Head(parts)
            c1 == IF p.k = "Literal"
                    THEN compile_literal(c, StringV(p.text), line)
                    ELSE emit_var_read(c, symbols, p.id, line)
        IN compile_parts(c1, symbols, Tail(parts), line)

\* compile_text_parts counting one part too many in every Concat.
compile_text_parts_one_more(c, symbols, parts, line) ==
    emit(compile_parts(c, symbols, parts, line), Concat(Len(parts) + 1), line)

compile_text_parts(c, symbols, parts, line) ==
    IF parts = <<>> THEN compile_literal(c, StringV(""), line)
    ELSE IF Len(parts) = 1 /\ parts[1].k = "Literal"
        THEN compile_literal(c, StringV(parts[1].text), line)
    ELSE
        LET c1 == compile_parts(c, symbols, parts, line)
        IN IF Len(parts) > 1 THEN emit(c1, Concat(Len(parts)), line) ELSE c1

RECURSIVE compile_block(_, _, _), compile_choice_texts(_, _, _),
          compile_branches(_, _, _)

\* Step 1 of the choice set: the text of every choice, in order.
compile_choice_texts(c, symbols, choices) ==
    IF choices = <<>> THEN c
    ELSE compile_choice_texts(
            compile_text_parts(c, symbols, Head(choices).parts,
                               Head(choices).pos),
            symbols, Tail(choices))

\* Step 3: per choice, its start offset, its nested statements, and a Jump
\* with a placeholder target.  cc is [chunk, choice_targets, jump_patches].
compile_branches(cc, symbols, choices) ==
    IF choices = <<>> THEN cc
    ELSE
        LET choice == Head(choices)
            start == current_offset(cc.chunk)
            body == compile_block(cc.chunk, symbols, choice.nested)
            jump_offset == current_offset(body)
        IN compile_branches(
            [chunk |-> emit(body, Jump(0), choice.pos),
             choice_targets |-> Append(cc.choice_targets, start),
             jump_patches |-> Append(cc.jump_patches, jump_offset)],
            symbols, Tail(choices))

compile_stmt(c, symbols, stmt) ==
    CASE stmt.k = "Temp" -> compile_literal(c, stmt.value, stmt.pos)
      [] stmt.k = "Save" ->
            emit(compile_literal(c, stmt.value, stmt.pos),
                 InitStorage(stmt.name), stmt.pos)
      [] stmt.k = "Set" ->
            emit_var_write(compile_literal(c, stmt.value, stmt.pos),
                           symbols, stmt.id, stmt.pos)
      [] stmt.k = "Line" ->
            emit(compile_text_parts(c, symbols, stmt.parts, stmt.pos),
                 LineI, stmt.pos)
      [] stmt.k = "ChoiceSet" ->
            LET count == Len(stmt.choices)
                line == stmt.choices[1].pos
                texts == compile_choice_texts(c, symbols, stmt.choices)
                choice_set_offset == current_offset(texts)
                placed == emit(texts,
                               ChoiceSetI(count, [i \in 1..count |-> 0]),
                               line)
                cc == compile_branches(
                        [chunk |-> placed, choice_targets |-> <<>>,
                         jump_patches |-> <<>>],
                        symbols, stmt.choices)
                gather_point == current_offset(cc.chunk)
                patched == patch_jumps(cc.chunk, cc.jump_patches, gather_point)
            IN patch_choice_targets(patched, choice_set_offset,
                                    cc.choice_targets)

compile_block(c, symbols, stmts) ==
    IF stmts = <<>> THEN c
    ELSE compile_block(compile_stmt(c, symbols, Head(stmts)), symbols,
                       Tail(stmts))

\* compile without the trailing Return.
compile_without_return(script, symbols) ==
    compile_block(ChunkNew, symbols, script)

\* Compiler::compile: every statement, then the trailing Return.
compile(script, symbols) ==
    emit(compile_block(ChunkNew, symbols, script), Return, 0)

(***************************************************************************)
(* storage.rs: MemoryStorage and EmptyHostState.  A storage is a map from  *)
(* the names it holds to their values.                                     *)
(***************************************************************************)
MemoryStorageNew == EmptyMap

\* get answering a missing variable with the empty string.
storage_get_or_empty(st, name) ==
    IF name \in DOMAIN st THEN st[name] ELSE StringV("")

storage_get(st, name) == IF name \in DOMAIN st THEN st[name] ELSE Absent

storage_set(st, name, value) == Put(st, name, value)

\* An initialization that overwrites the stored value (insert, not or_insert).
initialize_overwriting(st, name, default) == Put(st, name, default)

initialize_if_absent(st, name, default) ==
    IF name \in DOMAIN st THEN st ELSE Put(st, name, default)

storage_contains(st, name) == name \in DOMAIN st

\* EmptyHostState::lookup: no host variable exists.
host_lookup(name) == Absent

(***************************************************************************)
(* vm.rs.  A VM state is [ip, stack, storage]; the chunk never changes.    *)
(* An operation returns [vm, result], result one of                        *)
(*   Line(text)  Choice(texts)  Done   the StepResult                      *)
(*   Err(e)      a RuntimeError                                            *)
(*   Panic(msg)  the call unwound: the vm is the state at the panic        *)
(***************************************************************************)
LineR(text) == [k |-> "Line", text |-> text]
ChoiceR(choices) == [k |-> "Choice", choices |-> choices]
DoneR == [k |-> "Done"]
ErrR(e) == [k |-> "Err", error |-> e]
PanicR(msg) == [k |-> "Panic", msg |-> msg]

NotAtChoice == [e |-> "NotAtChoice"]
InvalidChoiceIndex(index, count) ==
    [e |-> "InvalidChoiceIndex", index |-> index, count |-> count]
MissingSaveVariable(name) == [e |-> "MissingSaveVariable", name |-> name]
MissingExternVariable(name) == [e |-> "MissingExternVariable", name |-> name]

Underflow == "stack underflow: compiler bug"
\* the index panic of chunk.code[ip] and of stack[slot]
CodeOutOfBounds == "index out of bounds: code"
SlotOutOfBounds == "index out of bounds: stack"
Overflow == "attempt to subtract with overflow"

VMNew(st) == [ip |-> 0, stack |-> <<>>, storage |-> st]

Out(vm, result) == [vm |-> vm, result |-> result]

Push(vm, value) == [vm EXCEPT !.stack = Append(@, value)]
Pop(vm) == [vm EXCEPT !.stack = SubSeq(@, 1, Len(@) - 1)]

RECURSIVE MapToString(_)
MapToString(values) ==
    IF values = <<>> THEN <<>>
    ELSE <<to_string_value(Head(values))>> \o MapToString(Tail(values))

RECURSIVE ConcatStrings(_)
ConcatStrings(strings) ==
    IF strings = <<>> THEN ""
    ELSE Head(strings) \o ConcatStrings(Tail(strings))

\* is_at_end taking every position for the end.
always_at_end(c, at) == TRUE

\* VM::is_at_end: through any chain of Jumps, is the next instruction Return
\* (or is ip past the end)?
RECURSIVE is_at_end(_, _)
is_at_end(c, at) ==
    IF at >= Len(c.code) THEN TRUE
    ELSE
        LET instruction == At(c.code, at)
        IN CASE instruction.op = "Return" -> TRUE
             [] instruction.op = "Jump" -> is_at_end(c, instruction.target)
             [] OTHER -> FALSE

\* VM::run: the dispatch loop, to the next pause, error or panic.
RECURSIVE run(_, _, _)
run(c, vm, checks) ==
    IF vm.ip >= Len(c.code) THEN Out(vm, PanicR(CodeOutOfBounds))
    ELSE
        LET instruction == At(c.code, vm.ip)
            v == [vm EXCEPT !.ip = @ + 1]
            n == Len(vm.stack)
            op == instruction.op
        IN
        CASE op = "Constant" ->
                run(c, Push(v, At(c.constants, instruction.index)), checks)
          [] op = "GetLocal" ->
                IF instruction.slot >= n THEN Out(v, PanicR(SlotOutOfBounds))
                ELSE run(c, Push(v, At(v.stack, instruction.slot)), checks)
          [] op = "SetLocal" ->
                IF n = 0 THEN Out(v, PanicR(Underflow))
                ELSE IF instruction.slot >= n - 1
                    THEN Out(Pop(v), PanicR(SlotOutOfBounds))
                ELSE run(c, [Pop(v) EXCEPT !.stack =
                                SetAt(@, instruction.slot, Last(v.stack))],
                         checks)
          [] op = "Concat" ->
                IF n < instruction.count
                    \* stack.len() - count overflows: a panic where overflow
                    \* is checked; else start wraps above len, the loop and
                    \* truncate do nothing, and the empty string is pushed
                    THEN IF checks THEN Out(v, PanicR(Overflow))
                         ELSE run(c, Push(v, StringV("")), checks)
                ELSE
                    LET start == n - instruction.count
                        result == ConcatStrings(MapToString(
                                    SubSeq(v.stack, start + 1, n)))
                    IN run(c, Push([v EXCEPT !.stack = Truncate(@, start)],
                                   StringV(result)), checks)
          [] op = "Line" ->
                IF n = 0 THEN Out(v, PanicR(Underflow))
                ELSE Out(Pop(v), LineR(to_string_value(Last(v.stack))))
          [] op = "ChoiceSet" ->
                IF n < instruction.count
                    \* the pops that succeed empty the stack before the panic
                    THEN Out([v EXCEPT !.stack = <<>>], PanicR(Underflow))
                ELSE
                    LET start == n - instruction.count
                        \* popped last to first, then reversed
                        choices == MapToString(SubSeq(v.stack, start + 1, n))
                    IN Out([v EXCEPT !.stack = Truncate(@, start),
                                     !.ip = @ - 1],
                           ChoiceR(choices))
          [] op = "Jump" ->
                run(c, [v EXCEPT !.ip = instruction.target], checks)
          [] op = "InitStorage" ->
                IF n = 0 THEN Out(v, PanicR(Underflow))
                ELSE run(c, [Pop(v) EXCEPT !.storage =
                                initialize_if_absent(@, instruction.name,
                                                     Last(v.stack))],
                         checks)
          [] op = "GetStorage" ->
                LET got == storage_get(v.storage, instruction.name)
                IN IF got = Absent
                    THEN Out(v, ErrR(MissingSaveVariable(instruction.name)))
                    ELSE run(c, Push(v, got), checks)
          [] op = "SetStorage" ->
                IF n = 0 THEN Out(v, PanicR(Underflow))
                ELSE run(c, [Pop(v) EXCEPT !.storage =
                                storage_set(@, instruction.name,
                                            Last(v.stack))],
                         checks)
          [] op = "GetHost" ->
                LET got == host_lookup(instruction.name)
                IN IF got = Absent
                    THEN Out(v, ErrR(MissingExternVariable(instruction.name)))
                    ELSE run(c, Push(v, got), checks)
          [] op = "Return" -> Out(v, DoneR)

\* VM::step
step(c, vm, checks) == run(c, vm, checks)

\* select_and_continue moving past the ChoiceSet before it checks the index.
select_past_choice_set(c, vm, index, checks) ==
    IF vm.ip >= Len(c.code) THEN Out(vm, PanicR(CodeOutOfBounds))
    ELSE
        LET instruction == At(c.code, vm.ip)
            v == [vm EXCEPT !.ip = @ + 1]
        IN IF instruction.op = "ChoiceSet"
            THEN IF index >= instruction.count
                    THEN Out(v, ErrR(InvalidChoiceIndex(index,
                                                        instruction.count)))
                    ELSE run(c, [v EXCEPT !.ip =
                                    At(instruction.targets, index)], checks)
            ELSE Out(vm, ErrR(NotAtChoice))

\* select_and_continue taking the first target whatever the index.
select_first_target(c, vm, index, checks) ==
    IF vm.ip >= Len(c.code) THEN Out(vm, PanicR(CodeOutOfBounds))
    ELSE
        LET instruction == At(c.code, vm.ip)
        IN IF instruction.op = "ChoiceSet"
            THEN IF index >= instruction.count
                    THEN Out(vm, ErrR(InvalidChoiceIndex(index,
                                                         instruction.count)))
                    ELSE run(c, [vm EXCEPT !.ip =
                                    At(instruction.targets, 0)], checks)
            ELSE Out(vm, ErrR(NotAtChoice))

\* VM::select_and_continue
select_and_continue(c, vm, index, checks) ==
    IF vm.ip >= Len(c.code) THEN Out(vm, PanicR(CodeOutOfBounds))
    ELSE
        LET instruction == At(c.code, vm.ip)
        IN IF instruction.op = "ChoiceSet"
            THEN IF index >= instruction.count
                    THEN Out(vm, ErrR(InvalidChoiceIndex(index,
                                                         instruction.count)))
                    ELSE run(c, [vm EXCEPT !.ip =
                                    At(instruction.targets, index)], checks)
            ELSE Out(vm, ErrR(NotAtChoice))

(***************************************************************************)
(* token.rs and scanner.rs.  A source text is a sequence of characters     *)
(* (one-character strings, all ASCII: a byte offset is a character count). *)
(* sc is the Scanner: [source, start, current, line, indent_stack,         *)
(* pending_dedents, mode].  An operation that returns a value returns      *)
(* [sc, r]: the scanner it leaves and the value.                           *)
(***************************************************************************)
Span(start, end) == [start |-> start, end |-> end]
Token(kind, lexeme, span) == [kind |-> kind, lexeme |-> lexeme, span |-> span]

OkT(token) == [k |-> "Ok", token |-> token]
ErrT(message, span) == [k |-> "Err", message |-> message, span |-> span]

\* Scanner::new
ScannerNew(text) ==
    [source |-> text, start |-> 0, current |-> 0, line |-> 1,
     indent_stack |-> <<0>>, pending_dedents |-> 0, mode |-> "Indentation"]

\* char::is_ascii_alphabetic, is_ascii_digit, is_ascii_alphanumeric
Letters ==
    {"a", "b", "c", "d", "e", "f", "g", "h", "i", "j", "k", "l", "m", "n",
     "o", "p", "q", "r", "s", "t", "u", "v", "w", "x", "y", "z",
     "A", "B", "C", "D", "E", "F", "G", "H", "I", "J", "K", "L", "M", "N",
     "O", "P", "Q", "R", "S", "T", "U", "V", "W", "X", "Y", "Z"}
Digits == {"0", "1", "2", "3", "4", "5", "6", "7", "8", "9"}
is_ascii_alphabetic(ch) == ch \in Letters
is_ascii_digit(ch) == ch \in Digits
is_ascii_alphanumeric(ch) == ch \in Letters \cup Digits

\* The keywords and markers, as characters.
TempKw == <<"t", "e", "m", "p", " ">>
SaveKw == <<"s", "a", "v", "e", " ">>
SetKw == <<"s", "e", "t", " ">>
ChoiceKw == <<"-", " ">>
TrueKw == <<"t", "r", "u", "e">>
FalseKw == <<"f", "a", "l", "s", "e">>

\* Scanner::peek, peek_next, peek_at: None past the end.
peek_at(sc, offset) ==
    IF sc.current + offset < Len(sc.source)
        THEN Some(sc.source[sc.current + offset + 1])
        ELSE None
peek(sc) == peek_at(sc, 0)
peek_next(sc) == peek_at(sc, 1)

\* is_some_and over a set of characters
IsSomeIn(opt, chars) == opt # None /\ opt.v \in chars

\* Scanner::is_at_end, is_at_newline
scanner_is_at_end(sc) == sc.current >= Len(sc.source)
is_at_newline(sc) == IsSomeIn(peek(sc), {"\n", "\r"})

\* Scanner::advance, advance_n
advance(sc) ==
    IF scanner_is_at_end(sc) THEN sc ELSE [sc EXCEPT !.current = @ + 1]

RECURSIVE advance_n(_, _)
advance_n(sc, n) == IF n = 0 THEN sc ELSE advance_n(advance(sc), n - 1)

\* Scanner::check_keyword
check_keyword(sc, keyword) ==
    /\ sc.current + Len(keyword) <= Len(sc.source)
    /\ SubSeq(sc.source, sc.current + 1, sc.current + Len(keyword)) = keyword

\* Advance while the next character is one of chars.
RECURSIVE AdvanceWhile(_, _)
AdvanceWhile(sc, chars) ==
    IF IsSomeIn(peek(sc), chars) THEN AdvanceWhile(advance(sc), chars) ELSE sc

\* Scanner::skip_spaces
skip_spaces(sc) == AdvanceWhile(sc, {" "})

\* Scanner::consume_newline: [sc, r], r telling whether one was consumed.
consume_newline(sc) ==
    IF peek(sc) = Some("\n")
        THEN [sc |-> [advance(sc) EXCEPT !.line = @ + 1], r |-> TRUE]
    ELSE IF peek(sc) = Some("\r")
        THEN LET cr == advance(sc)
                 lf == IF peek(cr) = Some("\n") THEN advance(cr) ELSE cr
             IN [sc |-> [lf EXCEPT !.line = @ + 1], r |-> TRUE]
    ELSE [sc |-> sc, r |-> FALSE]

\* Scanner::make_token, error
Lexeme(sc) == SubSeq(sc.source, sc.start + 1, sc.current)
make_token(sc, kind) ==
    OkT(Token(kind, Lexeme(sc), Span(sc.start, sc.current)))
error(sc, message) == ErrT(message, Span(sc.start, sc.current))

Scanned(sc, r) == [sc |-> sc, r |-> r]

\* Scanner::scan_identifier
scan_identifier(sc) ==
    LET after == AdvanceWhile(sc, Letters \cup Digits \cup {"_"})
    IN Scanned(after, make_token(after, "Identifier"))

\* Scanner::scan_string
RECURSIVE StringBody(_)
StringBody(sc) ==
    IF peek(sc) = None
        THEN Scanned(sc, error(sc, "Unterminated string - reached end of file"))
    ELSE IF peek(sc).v = "\""
        THEN Scanned(advance(sc), make_token(advance(sc), "String"))
    ELSE IF peek(sc).v = "\\"
        \* the backslash, and the escaped character if there is one
        THEN StringBody(advance(advance(sc)))
    ELSE IF peek(sc).v \in {"\n", "\r"}
        THEN Scanned(sc, error(sc,
                "Unterminated string - newline in string literal"))
    ELSE StringBody(advance(sc))

scan_string(sc) == StringBody(advance(sc))

\* Scanner::scan_number
scan_number(sc) ==
    LET signed == IF peek(sc) = Some("-") THEN advance(sc) ELSE sc
        whole == AdvanceWhile(signed, Digits)
        after == IF peek(whole) = Some(".")
                        /\ IsSomeIn(peek_next(whole), Digits)
                    THEN AdvanceWhile(advance(whole), Digits)
                    ELSE whole
    IN Scanned(after, make_token(after, "Number"))

IsErr(r) == "k" \in DOMAIN r /\ r.k = "Err"

\* Advance to the end of the line.
RECURSIVE AdvanceToEol(_)
AdvanceToEol(sc) ==
    IF scanner_is_at_end(sc) \/ is_at_newline(sc) THEN sc
    ELSE AdvanceToEol(advance(sc))

\* self.start = self.current
begin_lexeme(sc) == [sc EXCEPT !.start = sc.current]

\* Scanner::process_line_start: the blank lines skipped, r is the error of
\* a tab, None at the end of the input, or Some(leading spaces).  One turn
\* of its loop, spaced being the scanner after the leading spaces counted
\* from offset from.
RECURSIVE process_line_start(_)
line_start_after_spaces(from, spaced) ==
    IF is_at_newline(spaced)
        THEN process_line_start(consume_newline(spaced).sc)
    ELSE IF peek(spaced) = Some("\t")
        THEN Scanned(AdvanceToEol(spaced),
                     error(AdvanceToEol(spaced),
                           "Tabs not allowed in indentation, use spaces"))
    ELSE IF scanner_is_at_end(spaced) THEN Scanned(spaced, None)
    ELSE Scanned(spaced, Some(spaced.current - from))

process_line_start(sc) ==
    line_start_after_spaces(sc.current, skip_spaces(begin_lexeme(sc)))

\* The Dedent loop of handle_indentation: pop the levels above spaces,
\* one pending dedent each.
RECURSIVE PopLevelsAbove(_, _)
PopLevelsAbove(sc, spaces) ==
    IF sc.indent_stack # <<>> /\ Last(sc.indent_stack) > spaces
        THEN PopLevelsAbove(
                [sc EXCEPT !.indent_stack = SubSeq(@, 1, Len(@) - 1),
                           !.pending_dedents = @ + 1],
                spaces)
        ELSE sc

\* Ok(Some(self.make_token(kind)))
SomeToken(sc, kind) == Scanned(sc, Some(make_token(sc, kind).token))

\* handle_indentation at the end of the input: one Dedent now if a level
\* is open, the others pending.
indentation_at_eof(at) ==
    IF Len(at.indent_stack) > 1
        THEN SomeToken([at EXCEPT
                            !.indent_stack = SubSeq(@, 1, Len(@) - 1),
                            !.pending_dedents = Len(at.indent_stack) - 2,
                            !.mode = "LineStart",
                            !.start = at.current],
                       "Dedent")
        ELSE Scanned([at EXCEPT !.mode = "LineStart"], None)

\* The Dedent of handle_indentation without the check of the level reached.
dedent_to_unchecked(popped, spaces) ==
    SomeToken([popped EXCEPT !.pending_dedents = @ - 1], "Dedent")

\* handle_indentation after its Dedent loop popped the levels above spaces.
dedent_to(popped, spaces) ==
    IF popped.indent_stack = <<>> \/ Last(popped.indent_stack) # spaces
        THEN Scanned(popped, error(popped, "Inconsistent indentation"))
        ELSE SomeToken([popped EXCEPT !.pending_dedents = @ - 1], "Dedent")

\* handle_indentation on a content line of spaces leading spaces, here
\* being the scanner in LineStart mode at the content.
indentation_of_line(here, spaces, current_indent) ==
    IF spaces > current_indent
        THEN SomeToken([here EXCEPT !.indent_stack = Append(@, spaces)],
                       "Indent")
    ELSE IF spaces < current_indent
        THEN dedent_to(PopLevelsAbove(here, spaces), spaces)
    ELSE Scanned(here, None)

\* handle_indentation after process_line_start returned line_start.
indentation_after(line_start) ==
    IF IsErr(line_start.r) THEN line_start
    ELSE IF line_start.r = None THEN indentation_at_eof(line_start.sc)
    ELSE indentation_of_line(
            [line_start.sc EXCEPT !.mode = "LineStart",
                                  !.start = line_start.sc.current],
            line_start.r.v,
            IF line_start.sc.indent_stack = <<>> THEN 0
            ELSE Last(line_start.sc.indent_stack))

\* Scanner::handle_indentation: r is an error, Some(token) or None.
handle_indentation(sc) ==
    IF sc.pending_dedents > 0
        THEN SomeToken([sc EXCEPT !.pending_dedents = @ - 1,
                                  !.start = sc.current],
                       "Dedent")
        ELSE indentation_after(process_line_start(sc))

\* make_token after the scanner moved to after.
TokenAt(after, kind) == Scanned(after, make_token(after, kind))

\* scan_declaration_content after skip_spaces and self.start = self.current
declaration_at(at, c) ==
    IF scanner_is_at_end(at) \/ is_at_newline(at)
        THEN Scanned(at, error(at, "Unexpected end of declaration"))
    ELSE IF is_ascii_alphabetic(c.v) \/ c.v = "_" THEN scan_identifier(at)
    ELSE IF c.v = "=" THEN TokenAt(advance(at), "Equals")
    ELSE IF c.v = "\"" THEN scan_string(at)
    ELSE IF is_ascii_digit(c.v)
            \/ (c.v = "-" /\ IsSomeIn(peek_next(at), Digits))
        THEN scan_number(at)
    ELSE IF check_keyword(at, TrueKw)
            /\ ~IsSomeIn(peek_at(at, 4), Letters \cup Digits \cup {"_"})
        THEN TokenAt(advance_n(at, 4), "True")
    ELSE IF check_keyword(at, FalseKw)
            /\ ~IsSomeIn(peek_at(at, 5), Letters \cup Digits \cup {"_"})
        THEN TokenAt(advance_n(at, 5), "False")
    ELSE Scanned(at, error(at, "Unexpected character in declaration"))

\* Scanner::scan_declaration_content
scan_declaration_content(sc) ==
    declaration_at(begin_lexeme(skip_spaces(sc)),
                   peek(skip_spaces(sc)))

\* scan_interpolation_content after skip_spaces and self.start = self.current
interpolation_at(at, c) ==
    IF scanner_is_at_end(at) \/ is_at_newline(at)
        THEN Scanned(at, error(at, "Unclosed interpolation - expected '}'"))
    ELSE IF c.v = "}"
        THEN TokenAt([advance(at) EXCEPT !.mode = "Text"], "CloseBrace")
    ELSE IF is_ascii_alphabetic(c.v) \/ c.v = "_" THEN scan_identifier(at)
    ELSE Scanned(at, error(at, "Expected identifier in interpolation"))

\* Scanner::scan_interpolation_content
scan_interpolation_content(sc) ==
    interpolation_at(begin_lexeme(skip_spaces(sc)), peek(skip_spaces(sc)))

\* The text segment of scan_text_content: up to a brace, a newline or the
\* end of the input.
RECURSIVE AdvanceText(_)
AdvanceText(sc) ==
    IF scanner_is_at_end(sc) \/ is_at_newline(sc)
            \/ IsSomeIn(peek(sc), {"{", "}"})
        THEN sc
        ELSE AdvanceText(advance(sc))

\* Scanner::scan_token between the indentation and the dispatch on the
\* mode, sc standing at the end of the input or at a newline: Eof, or the
\* newline consumed and the mode back to Indentation.
scan_end_or_newline(sc) ==
    IF scanner_is_at_end(sc) THEN TokenAt(sc, "Eof")
    ELSE TokenAt([consume_newline(sc).sc EXCEPT !.mode = "Indentation"],
                 "NewLine")

\* The escape of scan_text_content: one brace as a text segment.
BraceSegment(two, brace) ==
    Scanned(two, OkT(Token("TextSegment", <<brace>>,
                           Span(two.start, two.current))))

\* scan_text_content at a brace without the escapes: every `{` opens an
\* interpolation and every `}` is an error.
text_at_brace_unescaped(one, c) ==
    IF c.v = "{"
        THEN Scanned([one EXCEPT !.mode = "Interpolation"],
                     make_token(one, "OpenBrace"))
    ELSE Scanned(one,
                 error(one, "Unexpected '}' - use '}}' for literal brace"))

\* scan_text_content at a brace, one being the scanner past it.
text_at_brace(one, c) ==
    IF peek(one) = c THEN BraceSegment(advance(one), c.v)
    ELSE IF c.v = "{"
        THEN Scanned([one EXCEPT !.mode = "Interpolation"],
                     make_token(one, "OpenBrace"))
    ELSE Scanned(one,
                 error(one, "Unexpected '}' - use '}}' for literal brace"))

\* scan_text_content after self.start = self.current.  Its call of
\* scan_token, in LineStart mode at the end of the input or at a newline,
\* returns before the dispatch.
text_at(at, c) ==
    IF scanner_is_at_end(at) \/ is_at_newline(at)
        THEN scan_end_or_newline([at EXCEPT !.mode = "LineStart"])
    ELSE IF c.v \in {"{", "}"} THEN text_at_brace(advance(at), c)
    ELSE TokenAt(AdvanceText(at), "TextSegment")

\* Scanner::scan_text_content
scan_text_content(sc) == text_at(begin_lexeme(sc), peek(sc))

\* A keyword or marker of n characters, which sets the mode.
KeywordToken(sc, n, mode, kind) ==
    TokenAt([advance_n(sc, n) EXCEPT !.mode = mode], kind)

\* Scanner::scan_line_start
scan_line_start(sc) ==
    IF check_keyword(sc, TempKw) THEN KeywordToken(sc, 5, "Declaration", "Temp")
    ELSE IF check_keyword(sc, SaveKw)
        THEN KeywordToken(sc, 5, "Declaration", "Save")
    ELSE IF check_keyword(sc, SetKw)
        THEN KeywordToken(sc, 4, "Declaration", "Set")
    ELSE IF check_keyword(sc, ChoiceKw) THEN KeywordToken(sc, 2, "Text", "Choice")
    ELSE scan_text_content([sc EXCEPT !.mode = "Text"])

\* scan_token after the indentation: Eof, NewLine, or the token of the mode.
scan_in_mode(at) ==
    IF scanner_is_at_end(at) \/ is_at_newline(at)
        THEN scan_end_or_newline(at)
    ELSE CASE at.mode = "LineStart" -> scan_line_start(at)
           [] at.mode = "Declaration" -> scan_declaration_content(at)
           [] at.mode = "Text" -> scan_text_content(at)
           [] at.mode = "Interpolation" -> scan_interpolation_content(at)
           [] at.mode = "Indentation" ->
                Scanned(at, PanicR("unreachable: should have been handled above"))

\* scan_token in Indentation mode, after handle_indentation returned.
scan_after_indentation(indented) ==
    IF IsErr(indented.r) THEN indented
    ELSE IF indented.r # None THEN Scanned(indented.sc, OkT(indented.r.v))
    ELSE scan_in_mode(begin_lexeme(indented.sc))

\* Scanner::scan_token
scan_token(sc) ==
    IF sc.mode = "Indentation"
        THEN scan_after_indentation(handle_indentation(sc))
        ELSE scan_in_mode(begin_lexeme(sc))

\* The source texts: at most MaxPieces pieces, each a keyword, a marker or
\* one character.
Pieces ==
    {SetKw, ChoiceKw, <<"a">>, <<"1">>, <<"{">>, <<"}">>, <<" ">>, <<"\n">>,
     <<"\t">>, <<"=">>, <<"@">>, <<"\"">>}

RECURSIVE TextsUpTo(_)
TextsUpTo(n) ==
    IF n = 0 THEN {<<>>}
    ELSE LET shorter == TextsUpTo(n - 1)
         IN shorter \cup {p \o t : p \in Pieces, t \in shorter}

Texts == TextsUpTo(MaxPieces)

(***************************************************************************)
(* lib.rs: the Runtime facade.  rt is [current_line, current_choices,      *)
(* is_done]; the VM it owns is (ip, stack, storage) over chunk.            *)
(***************************************************************************)
VM == [ip |-> ip, stack |-> stack, storage |-> storage]

RT == [current_line |-> current_line, current_choices |-> current_choices,
       is_done |-> is_done]

IsPause(result) == result.k \in {"Line", "Choice", "Done"}

\* Runtime::handle_step_result, vm being the VM after the step.
\* handle_step_result keeping the line shown when a choice set is yielded.
handle_step_result_line_kept(c, rt, vm, result) ==
    CASE result.k = "Line" ->
            [rt EXCEPT !.current_line = Some(result.text),
                       !.is_done = is_at_end(c, vm.ip)]
      [] result.k = "Choice" ->
            [rt EXCEPT !.current_choices = Some(result.choices)]
      [] result.k = "Done" ->
            [rt EXCEPT !.current_line = None, !.is_done = TRUE]

\* handle_step_result taking a choice set for the end of the script.
handle_step_result_done_at_choice(c, rt, vm, result) ==
    CASE result.k = "Line" ->
            [rt EXCEPT !.current_line = Some(result.text),
                       !.is_done = is_at_end(c, vm.ip)]
      [] result.k = "Choice" ->
            [rt EXCEPT !.current_line = None,
                       !.current_choices = Some(result.choices),
                       !.is_done = TRUE]
      [] result.k = "Done" ->
            [rt EXCEPT !.current_line = None, !.is_done = TRUE]

\* handle_step_result leaving is_done as it is on Done.
handle_step_result_done_unset(c, rt, vm, result) ==
    CASE result.k = "Line" ->
            [rt EXCEPT !.current_line = Some(result.text),
                       !.is_done = is_at_end(c, vm.ip)]
      [] result.k = "Choice" ->
            [rt EXCEPT !.current_line = None,
                       !.current_choices = Some(result.choices)]
      [] result.k = "Done" ->
            [rt EXCEPT !.current_line = None]

handle_step_result(c, rt, vm, result) ==
    CASE result.k = "Line" ->
            [rt EXCEPT !.current_line = Some(result.text),
                       !.is_done = is_at_end(c, vm.ip)]
      [] result.k = "Choice" ->
            [rt EXCEPT !.current_line = None,
                       !.current_choices = Some(result.choices)]
      [] result.k = "Done" ->
            [rt EXCEPT !.current_line = None, !.is_done = TRUE]

\* The getters of the facade.
current_line_of(rt) ==
    IF rt.current_line = None THEN "" ELSE rt.current_line.v
current_choices_of(rt) ==
    IF rt.current_choices = None THEN <<>> ELSE rt.current_choices.v
has_more == ~is_done
is_waiting_for_choice == current_choices # None

OkR == [k |-> "Ok"]

\* What the facade call returns for the VM's result: Ok(()) for a
\* StepResult, the RuntimeError through `?`, or the panic.
Returned(result) == IF IsPause(result) THEN OkR ELSE result

\* The yield a pause adds to the history: its kind, the source position
\* the chunk records for the yielding instruction, the texts, and the
\* storage as the host finds it at the pause.
YieldOf(c, vm, result) ==
    CASE result.k = "Line" ->
            <<[k |-> "Line", pos |-> At(c.lines, vm.ip - 1),
               texts |-> <<result.text>>, storage |-> vm.storage]>>
      [] result.k = "Choice" ->
            <<[k |-> "Choice", pos |-> At(c.lines, vm.ip),
               texts |-> result.choices, storage |-> vm.storage]>>
      [] OTHER -> <<>>

\* The state after a facade call whose VM operation returned out; rt is the
\* facade as the call left it before the VM ran.
Finish(call, rt, out) ==
    LET rt1 == IF IsPause(out.result)
                THEN handle_step_result(chunk, rt, out.vm, out.result)
                ELSE rt
    IN
    /\ ip' = out.vm.ip
    /\ stack' = out.vm.stack
    /\ storage' = out.vm.storage
    /\ current_line' = rt1.current_line
    /\ current_choices' = rt1.current_choices
    /\ is_done' = rt1.is_done
    /\ status' = IF out.result.k = "Panic" THEN "panicked" ELSE status
    /\ last' = [call |-> call, result |-> Returned(out.result),
                stepped |-> TRUE]
    /\ trace' = trace \o YieldOf(chunk, out.vm, out.result)
    /\ errored' = (errored \/ out.result.k = "Err")

\* A facade call that does not reach the VM.
Skip(call) ==
    /\ last' = [call |-> call, result |-> OkR, stepped |-> FALSE]
    /\ UNCHANGED <<ip, stack, storage, current_line, current_choices, is_done,
                   status, trace, errored>>

AdvanceCall == [f |-> "advance", index |-> 0]
SelectCall(index) == [f |-> "select_choice", index |-> index]
NewCall == [f |-> "new", index |-> 0]

\* The build decides what an arithmetic overflow does, and no run shows
\* which build it is before one happens: on and off being the outcomes of
\* one VM operation with and without overflow checks, the builds the run
\* so far allows, and what the outcome shows of the build.
ChecksOf(build, on, off) ==
    IF build = "unobserved" THEN (IF on = off THEN {TRUE} ELSE BOOLEAN)
    ELSE {build = "on"}

Observed(build, checks, on, off) ==
    IF build # "unobserved" \/ on = off THEN build
    ELSE IF checks THEN "on" ELSE "off"

\* A facade call that runs the VM operation with outcomes on and off.
RunVM(call, rt, on, off) ==
    \E checks \in ChecksOf(overflow_checks, on, off) :
        /\ Finish(call, rt, IF checks THEN on ELSE off)
        /\ overflow_checks' = Observed(overflow_checks, checks, on, off)

\* advance without its is_done guard.
AdvanceUnguarded ==
    /\ status = "ready"
    /\ \E on \in {step(chunk, VM, TRUE)}, off \in {step(chunk, VM, FALSE)} :
            RunVM(AdvanceCall, RT, on, off)
    /\ misuse' = (misuse \/ is_waiting_for_choice)
    /\ UNCHANGED <<source, chunk, sels, scanner, scanned, calls,
                   resolver, pending>>

\* Runtime::advance
Advance ==
    /\ status = "ready"
    /\ IF ~is_done
        THEN \E on \in {step(chunk, VM, TRUE)}, off \in {step(chunk, VM, FALSE)} :
                RunVM(AdvanceCall, RT, on, off)
        ELSE Skip(AdvanceCall) /\ UNCHANGED overflow_checks
    /\ misuse' = (misuse \/ is_waiting_for_choice)
    /\ UNCHANGED <<source, chunk, sels, scanner, scanned, calls,
                   resolver, pending>>

\* The number of choices the runtime is showing.
ShownCount == Len(current_choices.v)

\* select_choice without its check of current_choices.
SelectChoiceUnguarded(index) ==
    /\ status = "ready"
    /\ \E on \in {select_and_continue(chunk, VM, index, TRUE)},
          off \in {select_and_continue(chunk, VM, index, FALSE)} :
            RunVM(SelectCall(index),
                  [RT EXCEPT !.current_choices = None], on, off)
    /\ misuse' = (misuse \/ current_choices = None \/ index >= ShownCount)
    /\ sels' = IF current_choices # None /\ index < ShownCount
                THEN Append(sels, index) ELSE sels
    /\ UNCHANGED <<source, chunk, scanner, scanned, calls,
                   resolver, pending>>

\* Runtime::select_choice
SelectChoice(index) ==
    /\ status = "ready"
    /\ IF current_choices # None
        THEN
            /\ \E on \in {select_and_continue(chunk, VM, index, TRUE)},
                  off \in {select_and_continue(chunk, VM, index, FALSE)} :
                    RunVM(SelectCall(index),
                          [RT EXCEPT !.current_choices = None], on, off)
            /\ misuse' = (misuse \/ index >= ShownCount)
            /\ sels' = IF index < ShownCount THEN Append(sels, index) ELSE sels
        ELSE
            /\ Skip(SelectCall(index))
            /\ UNCHANGED <<misuse, sels, overflow_checks>>
    /\ UNCHANGED <<source, chunk, scanner, scanned, calls,
                   resolver, pending>>

\* Runtime::with_storage_and_host on a script that parses and resolves:
\* compile, build the VM over the storage, and step it once.  A
\* RuntimeError of that first step fails the construction.
Constructed(src, build, c, out) ==
    LET rt0 == [current_line |-> None, current_choices |-> None,
                is_done |-> FALSE]
        rt1 == IF IsPause(out.result)
                THEN handle_step_result(c, rt0, out.vm, out.result)
                ELSE rt0
    IN
    /\ source = src
    /\ chunk = c
    /\ overflow_checks = build
    /\ ip = out.vm.ip
    /\ stack = out.vm.stack
    /\ storage = out.vm.storage
    /\ current_line = rt1.current_line
    /\ current_choices = rt1.current_choices
    /\ is_done = rt1.is_done
    /\ status = CASE out.result.k = "Panic" -> "panicked"
                  [] out.result.k = "Err" -> "failed"
                  [] OTHER -> "ready"
    /\ last = [call |-> NewCall, result |-> Returned(out.result),
               stepped |-> TRUE]
    /\ trace = YieldOf(c, out.vm, out.result)
    /\ sels = <<>>
    /\ misuse = FALSE
    /\ errored = FALSE

\* Runtime::with_storage_and_host after the parser and the resolver
\* returned Ok: the compiler, the runtime and its first step_vm.  src is the
\* script by line, kept for the record.
construct(script, src, st) ==
    \E c \in {compile(script, analyze(script))} :
        \E on \in {step(c, VMNew(st), TRUE)},
           off \in {step(c, VMNew(st), FALSE)} :
            \E checks \in ChecksOf("unobserved", on, off) :
                Constructed(src, Observed("unobserved", checks, on, off),
                            c, IF checks THEN on ELSE off)

\* Runtime::with_storage
with_storage(src, st) == construct(parse(src), src, st)

\* Runtime::new: over a new MemoryStorage
RuntimeNew(src) == with_storage(src, MemoryStorageNew)

\* The runs of the runtimes of the valid sources.  The scanner is followed
\* on its own, in SpecScan.
Init ==
    /\ \E src \in ValidSources : RuntimeNew(src)
    /\ scanner = ScannerNew(<<>>)
    /\ scanned = None
    /\ calls = 0
    /\ ResolverIdle

Next ==
    \/ Advance
    \/ \E index \in 0..MaxChoices : SelectChoice(index)

Spec == Init /\ [][Next]_vars

(***************************************************************************)
(* The scanner on its own: the token iterator of Scanner::tokens over a    *)
(* source text, pulled by the parser (Parser::parse, parse_text_parts,     *)
(* synchronize ...) token after token until it ends.                       *)
(***************************************************************************)
IsEof(r) == "k" \in DOMAIN r /\ r.k = "Ok" /\ r.token.kind = "Eof"

\* Scanner::tokens: the next item of the iterator, by one scan_token call;
\* the iterator ends when the call returns Eof.
NextTokenWithin(max) ==
    /\ ~IsEof(scanned)
    /\ calls < max
    /\ \E out \in {scan_token(scanner)} :
            /\ scanner' = out.sc
            /\ scanned' = out.r
    /\ calls' = calls + 1
    /\ UNCHANGED <<source, chunk, ip, stack, storage, current_line,
                   current_choices, is_done, status, overflow_checks, last,
                   trace, sels, misuse, errored, resolver, pending>>

NextToken == NextTokenWithin(MaxCalls)

ScanInit ==
    /\ \E text \in Texts : scanner = ScannerNew(text)
    /\ scanned = None
    /\ calls = 0
    /\ ResolverIdle
    /\ RuntimeNew(<<>>)

ScanNext == NextToken

SpecScan == ScanInit /\ [][ScanNext]_vars

(***************************************************************************)
(* The walk of a script along a sequence of selections: what a reader of   *)
(* the script expects a run to show.  st is [sel, temps, storage, events,  *)
(* halt]: the selections still to take, the temps in scope and the saved   *)
(* variables by name, the yields so far, and "waiting" once the walk stands*)
(* at a choice set with no selection left.                                 *)
(***************************************************************************)
WalkNew(selections) ==
    [sel |-> selections, temps |-> EmptyMap, storage |-> MemoryStorageNew,
     events |-> <<>>, halt |-> ""]

\* A temp hides nothing (the resolver rejects shadowing): a name is a temp
\* in scope, or a saved variable.
WalkValue(st, name) ==
    IF name \in DOMAIN st.temps THEN st.temps[name]
    ELSE IF name \in DOMAIN st.storage THEN st.storage[name]
    ELSE StringV("?")

RECURSIVE WalkText(_, _)
WalkText(st, parts) ==
    IF parts = <<>> THEN ""
    ELSE (IF Head(parts).k = "Literal" THEN Head(parts).text
          ELSE to_string_value(WalkValue(st, Head(parts).name)))
            \o WalkText(st, Tail(parts))

\* Does the text interpolate a temp in scope?
ShowsTemp(st, parts) ==
    \E i \in 1..Len(parts) :
        parts[i].k = "VarRef" /\ parts[i].name \in DOMAIN st.temps

WalkEvent(st, k, pos, texts, temp) ==
    [st EXCEPT !.events = Append(@, [k |-> k, pos |-> pos, texts |-> texts,
                                     storage |-> st.storage, temp |-> temp])]

RECURSIVE Walk(_, _)
Walk(stmts, st) ==
    IF stmts = <<>> \/ st.halt # "" THEN st
    ELSE
        LET stmt == Head(stmts)
        IN
        CASE stmt.k = "Line" ->
                Walk(Tail(stmts),
                     WalkEvent(st, "Line", stmt.pos,
                               <<WalkText(st, stmt.parts)>>,
                               ShowsTemp(st, stmt.parts)))
          [] stmt.k = "Temp" ->
                Walk(Tail(stmts),
                     [st EXCEPT !.temps = Put(@, stmt.name, stmt.value)])
          [] stmt.k = "Save" ->
                Walk(Tail(stmts),
                     [st EXCEPT !.storage =
                        IF stmt.name \in DOMAIN @ THEN @
                        ELSE Put(@, stmt.name, stmt.value)])
          [] stmt.k = "Set" ->
                Walk(Tail(stmts),
                     IF stmt.name \in DOMAIN st.temps
                        THEN [st EXCEPT !.temps =
                                Put(@, stmt.name, stmt.value)]
                        ELSE [st EXCEPT !.storage =
                                Put(@, stmt.name, stmt.value)])
          [] stmt.k = "ChoiceSet" ->
                LET shown ==
                        WalkEvent(st, "Choice", stmt.choices[1].pos,
                                  [i \in 1..Len(stmt.choices) |->
                                        WalkText(st, stmt.choices[i].parts)],
                                  FALSE)
                IN
                IF st.sel = <<>> \/ Head(st.sel) >= Len(stmt.choices)
                    THEN [shown EXCEPT !.halt = "waiting"]
                    ELSE
                        \* the selected branch, whose temps end with it
                        LET branch ==
                                Walk(stmt.choices[Head(st.sel) + 1].nested,
                                     [shown EXCEPT !.sel = Tail(@)])
                        IN Walk(Tail(stmts),
                                [branch EXCEPT !.temps =
                                    [n \in DOMAIN st.temps |->
                                        branch.temps[n]]])

\* The walk of the script of the run along the selections of the run.
Path == Walk(parse(source), WalkNew(sels))

\* Where and what a yield was, and the storage it left.
Place(e) == [k |-> e.k, pos |-> e.pos, storage |-> e.storage]
Places(events) == [i \in 1..Len(events) |-> Place(events[i])]

\* The host follows the protocol: it answers a choice set by select_choice
\* with an index the set has, and calls advance otherwise.
Protocol == ~misuse

(***************************************************************************)
(* C1: when the host follows the protocol, the Lines and Choices yielded   *)
(* so far, with the storage each left, are those of the walk of the script *)
(* along the selections made, in source order: after select_choice(i) only *)
(* branch i runs, then what follows the choice set, also for nested sets.  *)
(* The run has taken every selection, stands at the walk's choice set when *)
(* it waits, and has shown the whole walk when it is done.                 *)
(***************************************************************************)
YieldsFollowSelectedPath ==
    Protocol =>
        \E path \in {Path} :
            /\ IsPrefix(Places(trace), Places(path.events))
            /\ path.sel = <<>>
            /\ is_waiting_for_choice =>
                    path.halt = "waiting" /\ Len(trace) = Len(path.events)
            /\ (is_done /\ status = "ready") =>
                    path.halt = "" /\ Len(trace) = Len(path.events)

\* Two selections deep, the run has come back to the line that follows the
\* outer choice set.
GatherReachedAfterNestedChoice ==
    /\ Protocol
    /\ Len(sels) = 2
    /\ source[Len(source)] = SrcLine(0, "Line", "")
    /\ trace # <<>> /\ Last(trace).k = "Line"
    /\ Last(trace).pos = Len(source)
    /\ \E i \in 1..Len(source) : source[i].depth = 2

(***************************************************************************)
(* C2: when the host follows the protocol, every yielded Line that         *)
(* interpolates a temp renders the value of that temp (the entry its own   *)
(* TempDecl pushed, or the value last assigned to it), whichever branch was*)
(* taken before.                                                           *)
(***************************************************************************)
TempReadsOwnSlot ==
    Protocol =>
        \E path \in {Path} :
            \A i \in (1..Len(trace)) \cap (1..Len(path.events)) :
                path.events[i].temp =>
                    trace[i].texts = path.events[i].texts

(***************************************************************************)
(* C3: with an initially empty storage and a host that follows the         *)
(* protocol, no call returns MissingSaveVariable, wherever the save        *)
(* declaration and the reference sit.                                      *)
(***************************************************************************)
SaveInitializedBeforeRead ==
    Protocol =>
        ~(last.result.k = "Err"
            /\ last.result.error.e = "MissingSaveVariable")

(***************************************************************************)
(* C4: whatever calls the host makes, in any order, the VM never pops from *)
(* an empty stack and never indexes the stack at or beyond its height.     *)
(***************************************************************************)
StackNeverMisused ==
    ~(last.result.k = "Panic"
        /\ last.result.msg \in {Underflow, SlotOutOfBounds})

(***************************************************************************)
(* C5: right after a Line is yielded (the host following the protocol),    *)
(* has_more is false if and only if continuing the run yields no further   *)
(* Line or Choice.                                                         *)
(***************************************************************************)
YieldsAhead ==
    step(chunk, VM, TRUE).result.k \in {"Line", "Choice"}

HasMoreIffYieldsAhead ==
    (Protocol /\ status = "ready" /\ last.stepped /\ last.result = OkR
        /\ current_line # None)
        => (has_more <=> YieldsAhead)

(***************************************************************************)
(* C6: once has_more is false, an advance returns Ok and leaves            *)
(* current_line, current_choices (so is_waiting_for_choice), has_more, the *)
(* VM's ip and stack and the storage as they were.                         *)
(***************************************************************************)
AdvanceWhenDoneIsNoOp ==
    [][(~has_more /\ last'.call = AdvanceCall /\ last' # last) =>
            /\ last'.result = OkR
            /\ UNCHANGED <<current_line, current_choices, is_done, ip, stack,
                           storage>>]_vars

\* An advance was made with has_more false, after the run had shown lines
\* and reached its end: the call did not reach the VM.
AdvancedWhenDone ==
    /\ ~has_more
    /\ last.call = AdvanceCall /\ ~last.stepped
    /\ trace # <<>>

(***************************************************************************)
(* C7: at a ChoiceSet of count choices, select_and_continue(index) with    *)
(* index >= count returns InvalidChoiceIndex{index, count} and leaves the  *)
(* VM as it was, so that a following call with a valid index does what it  *)
(* would have done without the failed call.                                *)
(***************************************************************************)
AtChoiceSet ==
    ip < Len(chunk.code) /\ At(chunk.code, ip).op = "ChoiceSet"

InvalidIndexLeavesVMUnchanged ==
    (status = "ready" /\ AtChoiceSet) =>
        LET count == At(chunk.code, ip).count
        IN \A checks \in BOOLEAN :
            \A index \in count..(MaxChoices + 1) :
                \E failed \in {select_and_continue(chunk, VM, index, checks)} :
                    /\ failed.result = ErrR(InvalidChoiceIndex(index, count))
                    /\ failed.vm.ip = ip /\ failed.vm.stack = stack
                    /\ \A valid \in 0..(count - 1) :
                            select_and_continue(chunk, failed.vm, valid, checks)
                                = select_and_continue(chunk, VM, valid, checks)

\* select_choice has just returned InvalidChoiceIndex, and the VM stands at
\* the choice set.
InvalidIndexReturned ==
    /\ status = "ready" /\ AtChoiceSet
    /\ last.call.f = "select_choice"
    /\ last.result.k = "Err"
    /\ last.result.error.e = "InvalidChoiceIndex"

(***************************************************************************)
(* C8: in every state the VM reaches where ip does not point at a          *)
(* ChoiceSet (after a Line, after Done), select_and_continue returns       *)
(* NotAtChoice and leaves ip and the stack as they were.                   *)
(***************************************************************************)
NotAtChoiceReturned ==
    (Protocol /\ status = "ready" /\ ~AtChoiceSet) =>
        \A index \in 0..MaxChoices :
            select_and_continue(chunk, VM, index, TRUE)
                = Out(VM, ErrR(NotAtChoice))

(***************************************************************************)
(* C9: after advance or select_choice returned MissingSaveVariable or      *)
(* MissingExternVariable, an advance runs no instruction: ip, the stack    *)
(* and the storage stay as they were and nothing more is yielded.          *)
(***************************************************************************)
MissingVariable ==
    /\ last.result.k = "Err"
    /\ last.result.error.e \in {"MissingSaveVariable",
                                "MissingExternVariable"}

StoppedAfterRuntimeError ==
    [][(MissingVariable /\ last'.call = AdvanceCall) =>
            UNCHANGED <<ip, stack, storage, trace>>]_vars

(***************************************************************************)
(* C10: every scan_token call that returns an error has consumed input or  *)
(* changed the state of the scanner, so that the token stream of every     *)
(* source text is finite and the parser's synchronization reaches a        *)
(* NewLine or the end of the stream.                                       *)
(***************************************************************************)
ErrorTokenMakesProgress ==
    [][IsErr(scanned') => scanner' # scanner]_vars


(***************************************************************************)
(* The host of the examples and the tests: it calls advance while has_more *)
(* is true and the runtime is not waiting, answers a choice set by         *)
(* select_choice with an index the set has, and goes on for as long as     *)
(* one of the two applies.                                                 *)
(***************************************************************************)
HostAdvance ==
    /\ has_more /\ ~is_waiting_for_choice
    /\ Advance

HostSelect(index) ==
    /\ is_waiting_for_choice /\ index < ShownCount
    /\ SelectChoice(index)

HostNext ==
    \/ HostAdvance
    \/ \E index \in 0..(MaxChoices - 1) : HostSelect(index)

\* ENABLED <<HostNext>>_vars, written out: the runtime stands (no panic has
\* ended the process), has_more is true, and a choice set shown has a
\* choice to select.  Every call the host then makes changes the state.
HostEnabled ==
    /\ status = "ready" /\ has_more
    /\ is_waiting_for_choice => ShownCount >= 1

\* WF_vars(HostNext), by its definition: the host does not stop calling
\* while it has a call to make.
HostKeepsCalling == []<>(~HostEnabled) \/ []<><<HostNext>>_vars

SpecHost == Init /\ [][HostNext]_vars /\ HostKeepsCalling

\* The gather point of a choice set, read off the chunk: the target of the
\* Jump that ends a branch, found from position i of the branch on, the
\* choice sets nested in the branch being stepped over to their own gather
\* points.
RECURSIVE GatherFrom(_, _)
GatherFrom(c, i) ==
    LET instruction == At(c.code, i)
    IN CASE instruction.op = "Jump" -> instruction.target
         [] instruction.op = "ChoiceSet" ->
                GatherFrom(c, GatherFrom(c, At(instruction.targets, 0)))
         [] OTHER -> GatherFrom(c, i + 1)

GatherOf(c, p) == GatherFrom(c, At(At(c.code, p).targets, 0))

\* Where execution stands once the Jumps at position at are followed.
RECURSIVE Landing(_, _)
Landing(c, at) ==
    IF at < Len(c.code) /\ At(c.code, at).op = "Jump"
        THEN Landing(c, At(c.code, at).target)
        ELSE at

\* Every choice set the run has shown has had its gather point reached:
\* execution stands at it or beyond, or nothing but Jumps lead it there.
GathersReached ==
    \A i \in 1..Len(trace) :
        trace[i].k = "Choice" =>
            \A p \in 0..(Len(chunk.code) - 1) :
                (At(chunk.code, p).op = "ChoiceSet"
                    /\ At(chunk.lines, p) = trace[i].pos)
                    => Landing(chunk, ip) >= GatherOf(chunk, p)

\* The run is over: has_more is false with every gather point reached, or a
\* runtime error (or a panic) has occurred.
Ended ==
    \/ status # "ready"
    \/ errored
    \/ is_done /\ GathersReached

(***************************************************************************)
(* C11: with the host that keeps calling advance while has_more is true    *)
(* and it is not waiting, and select_choice with a valid index whenever it *)
(* is waiting, a run in which no runtime error occurs reaches, after       *)
(* finitely many calls, has_more = false with the gather point of every    *)
(* choice set it selected in reached.                                      *)
(***************************************************************************)
HostRunEnds == <>Ended

\* Two selections deep, the run has gone through both gather points and
\* what follows them to the final Return.
RunEndedPastTwoGathers ==
    /\ status = "ready" /\ ~errored
    /\ Len(sels) = 2
    /\ is_done /\ ip = Len(chunk.code)
    /\ GathersReached
    /\ \E i \in 1..Len(source) : source[i].depth = 2


(***************************************************************************)
(* The runtime over a storage the host owns (Runtime::with_storage): the   *)
(* storage may hold values when the runtime is constructed (a loaded game, *)
(* an earlier run of the script), and between two calls the host may set   *)
(* or remove a variable in it.                                             *)
(***************************************************************************)
MaxStoreNodes == 3

\* The value a storage holds from before the run, and the value the host
\* writes between calls.
StoredValue == StringV("k")
HostValue == StringV("h")

\* The storages a runtime is constructed over.
Storages ==
    UNION {[names -> {StoredValue}] : names \in SUBSET Names}

\* The scripts that declare a save variable.
StoreSources ==
    {src \in SourcesUpTo(MaxStoreNodes) :
        \E i \in 1..Len(src) : src[i].k = "Save"}

StoreInit ==
    /\ \E src \in StoreSources, st \in Storages : with_storage(src, st)
    /\ scanner = ScannerNew(<<>>)
    /\ scanned = None
    /\ calls = 0
    /\ ResolverIdle

\* The host sets a variable of the storage between two calls.
HostSet(name) ==
    /\ status = "ready"
    /\ storage' = storage_set(storage, name, HostValue)
    /\ UNCHANGED <<source, chunk, ip, stack, current_line, current_choices,
                   is_done, status, overflow_checks, last, trace, sels,
                   misuse, errored, scanner, scanned, calls,
                   resolver, pending>>

\* The host removes a variable from the storage between two calls.
HostRemove(name) ==
    /\ status = "ready"
    /\ name \in DOMAIN storage
    /\ storage' = [n \in DOMAIN storage \ {name} |-> storage[n]]
    /\ UNCHANGED <<source, chunk, ip, stack, current_line, current_choices,
                   is_done, status, overflow_checks, last, trace, sels,
                   misuse, errored, scanner, scanned, calls,
                   resolver, pending>>

StoreNext ==
    \/ Advance
    \/ \E index \in 0..(MaxChoices - 1) : SelectChoice(index)
    \/ \E name \in Names : HostSet(name)
    \/ \E name \in Names : HostRemove(name)

SpecStore == StoreInit /\ [][StoreNext]_vars

\* The instructions at ip are those of the given operations, in order.
CodeAt(c, at, ops) ==
    /\ at + Len(ops) <= Len(c.code)
    /\ \A i \in 1..Len(ops) : At(c.code, at + i - 1).op = ops[i]

\* Execution stands before `save name = default` followed by a line that
\* shows a literal and then {name}.
BeforeSaveThenLine ==
    /\ status = "ready" /\ ~is_done /\ ~is_waiting_for_choice
    /\ CodeAt(chunk, ip, <<"Constant", "InitStorage", "Constant",
                           "GetStorage", "Concat", "Line">>)
    /\ At(chunk.code, ip + 3).name = At(chunk.code, ip + 1).name

(***************************************************************************)
(* C12: initialize_if_absent(name, d) stores d when name is absent and     *)
(* leaves the storage as it is otherwise, so twice is once; get after      *)
(* set(name, v) returns v, also after an initialize_if_absent; and a save  *)
(* declaration run over a storage that holds the variable renders the      *)
(* stored value in the line that follows, the declared default only when   *)
(* the variable is absent.                                                 *)
(***************************************************************************)
InitializeKeepsStoredValue ==
    /\ \A name \in Names, d \in {NumberV(0), HostValue},
          v \in {NumberV(1), StoredValue} :
            \E once \in {initialize_if_absent(storage, name, d)} :
                /\ storage_contains(storage, name) => once = storage
                /\ ~storage_contains(storage, name) =>
                        /\ storage_get(once, name) = d
                        /\ \A n \in DOMAIN storage :
                                storage_get(once, n) = storage_get(storage, n)
                        /\ DOMAIN once = DOMAIN storage \cup {name}
                /\ initialize_if_absent(once, name, d) = once
                /\ storage_get(storage_set(storage, name, v), name) = v
                /\ storage_get(storage_set(once, name, v), name) = v
    /\ BeforeSaveThenLine =>
            LET name == At(chunk.code, ip + 1).name
                default == At(chunk.constants, At(chunk.code, ip).index)
                literal == At(chunk.constants, At(chunk.code, ip + 2).index)
                shown == IF name \in DOMAIN storage THEN storage[name]
                         ELSE default
            IN \A checks \in BOOLEAN :
                \E out \in {step(chunk, VM, checks)} :
                    /\ out.result =
                         LineR(literal.s \o to_string_value(shown))
                    /\ out.vm.storage[name] = shown

\* A save declaration has run over a storage that held the variable from
\* before the run, and the line after it has rendered the stored value.
StoredValueRendered ==
    /\ Len(source) = 3 /\ source[2].k = "Save"
    /\ source[3] = SrcLine(0, "Line", source[2].name)
    /\ Len(trace) = 2
    /\ Last(trace).texts = <<"L3k">>
    /\ last.call = AdvanceCall

(***************************************************************************)
(* C13: whatever the host did to the storage since the last call, a line   *)
(* that shows a save variable renders the value the storage holds when the *)
(* advance runs, and the advance fails with MissingSaveVariable{name} when *)
(* the storage does not hold the variable.                                 *)
(***************************************************************************)
BeforeLineOfSave ==
    /\ status = "ready" /\ ~is_done /\ ~is_waiting_for_choice
    /\ CodeAt(chunk, ip, <<"Constant", "GetStorage", "Concat", "Line">>)

GetStorageReadsStorageNow ==
    BeforeLineOfSave =>
        LET name == At(chunk.code, ip + 1).name
            literal == At(chunk.constants, At(chunk.code, ip).index)
        IN \A checks \in BOOLEAN :
            \E out \in {step(chunk, VM, checks)} :
                IF name \in DOMAIN storage
                    THEN out.result =
                            LineR(literal.s \o to_string_value(storage[name]))
                    ELSE out.result = ErrR(MissingSaveVariable(name))

\* The declaration of the save variable has run and a line has shown its
\* value; then the host has written the variable, and the next line has
\* rendered what the host wrote.
HostValueRendered ==
    /\ Len(trace) >= 2
    /\ \E i \in 1..Len(source) :
            /\ trace[Len(trace) - 1].texts = <<"L" \o IntToStr(i - 1) \o "0">>
            /\ Last(trace).texts = <<"L" \o IntToStr(i) \o "h">>
    /\ last.call = AdvanceCall


(***************************************************************************)
(* A second run of the script of the run: compiled again, constructed over *)
(* the storage as the first run has left it, in a build with or without    *)
(* overflow checks, and driven as the first run was, by advance and by     *)
(* select_choice with the same indices, for as many yields.  r is [vm, rt, *)
(* shown, sel, stopped]: the VM and the facade, the yields so far, the     *)
(* indices still to give, and whether an error or a panic ended the run.   *)
(***************************************************************************)
RerunAfter(c, r, out) ==
    [r EXCEPT !.vm = out.vm,
              !.rt = IF IsPause(out.result)
                        THEN handle_step_result(c, r.rt, out.vm, out.result)
                        ELSE r.rt,
              !.shown = @ \o YieldOf(c, out.vm, out.result),
              !.stopped = ~IsPause(out.result)]

RECURSIVE RerunCalls(_, _, _, _, _)
RerunCalls(c, r, yields, done, checks) ==
    IF r.stopped \/ r.rt.is_done \/ Len(r.shown) > yields THEN r
    ELSE IF Len(r.shown) = yields /\ ~done THEN r
    ELSE IF r.rt.current_choices # None
        THEN IF r.sel = <<>> THEN r
             ELSE RerunCalls(c,
                    RerunAfter(c,
                        [r EXCEPT !.rt.current_choices = None,
                                  !.sel = Tail(@)],
                        select_and_continue(c, r.vm, Head(r.sel), checks)),
                    yields, done, checks)
    ELSE RerunCalls(c, RerunAfter(c, r, step(c, r.vm, checks)),
                    yields, done, checks)

Rerun(src, st, selections, yields, done, checks) ==
    \* the first step is made by the construction
    LET c == compile(parse(src), analyze(parse(src)))
        r0 == [vm |-> VMNew(st),
               rt |-> [current_line |-> None, current_choices |-> None,
                       is_done |-> FALSE],
               shown |-> <<>>, sel |-> selections, stopped |-> FALSE]
    IN RerunCalls(c, RerunAfter(c, r0, step(c, r0.vm, checks)),
                  yields, done, checks)

\* The script declares no save variable.
SaveFree(src) == \A i \in 1..Len(src) : src[i].k # "Save"

\* The kind and the texts of every yield.
Shown(events) ==
    [i \in 1..Len(events) |-> [k |-> events[i].k, texts |-> events[i].texts]]

\* The last call of the run returned Done (has_more went false without a
\* line to show).
DoneReturned == is_done /\ current_line = None

ChoiceTextSources ==
    {src \in SourcesWithChoiceTexts(MaxNodes) :
        \E i \in 1..Len(src) : src[i].k = "Choice" /\ src[i].name # ""}

ChoiceTextInit ==
    /\ \E src \in ChoiceTextSources : RuntimeNew(src)
    /\ scanner = ScannerNew(<<>>)
    /\ scanned = None
    /\ calls = 0
    /\ ResolverIdle

SpecChoiceText == ChoiceTextInit /\ [][HostNext]_vars

(***************************************************************************)
(* C15: when a ChoiceSet has executed (the runtime is waiting), the list   *)
(* yielded has count entries, its i-th entry is the text of the i-th       *)
(* choice of the set as the script gives it at that moment (literals and   *)
(* the current values of the variables shown), the operand texts are off   *)
(* the stack (which holds the temps, all numbers, and no text), and ip     *)
(* points at the ChoiceSet.                                                *)
(***************************************************************************)
ChoiceSetYieldsItsChoices ==
    (status = "ready" /\ ~errored /\ is_waiting_for_choice) =>
        \E path \in {Path} :
            /\ AtChoiceSet
            /\ Last(trace).k = "Choice"
            /\ Len(Last(trace).texts) = At(chunk.code, ip).count
            /\ current_choices = Some(Last(trace).texts)
            /\ Len(trace) <= Len(path.events)
            /\ Last(trace).texts = path.events[Len(trace)].texts
            /\ \A j \in 1..Len(stack) : stack[j].t # "String"

(***************************************************************************)
(* C16: every Line yielded is the concatenation, in source order, of the   *)
(* literal parts of the line and the values its variable references have   *)
(* when the line executes: a set executed earlier on the path shows, a set *)
(* executed later does not.                                                *)
(***************************************************************************)
LineYieldsCurrentValues ==
    (status = "ready" /\ ~errored) =>
        \E path \in {Path} :
            \A i \in 1..Len(trace) :
                trace[i].k = "Line" =>
                    /\ i <= Len(path.events)
                    /\ trace[i].texts = path.events[i].texts


(***************************************************************************)
(* Construction over the sources without content: declarations and         *)
(* assignments only, whether they resolve or not.  A source the resolver   *)
(* rejects gives no runtime: with_storage_and_host returns                 *)
(* BobbinError::Semantic through the `?` after analyze.                    *)
(***************************************************************************)
NoContentKinds ==
    {[k |-> k, name |-> n] : k \in {"Temp", "Save", "Set"}, n \in Names}

RECURSIVE NoContentSources(_)
NoContentSources(n) ==
    IF n = 0 THEN {<<>>}
    ELSE LET shorter == NoContentSources(n - 1)
         IN shorter \cup
            {Append(p, SrcLine(0, lk.k, lk.name)) :
                p \in {q \in shorter : Len(q) = n - 1}, lk \in NoContentKinds}

SemanticR(errors) == [k |-> "Semantic", errors |-> errors]

\* No runtime: the construction has returned errors.
RejectedWith(src, result) ==
    /\ source = src
    /\ chunk = ChunkNew
    /\ overflow_checks = "unobserved"
    /\ ip = 0
    /\ stack = <<>>
    /\ storage = MemoryStorageNew
    /\ current_line = None
    /\ current_choices = None
    /\ is_done = FALSE
    /\ status = "rejected"
    /\ last = [call |-> NewCall, result |-> result, stepped |-> FALSE]
    /\ trace = <<>>
    /\ sels = <<>>
    /\ misuse = FALSE
    /\ errored = FALSE

\* Resolver::analyze returned Err: the semantic errors.
Rejected(src) == RejectedWith(src, SemanticR(analyze(parse(src)).errors))

ConstructInit ==
    /\ \E src \in NoContentSources(MaxNodes) :
            IF Resolves(src) THEN RuntimeNew(src) ELSE Rejected(src)
    /\ scanner = ScannerNew(<<>>)
    /\ scanned = None
    /\ calls = 0
    /\ ResolverIdle

SpecConstruct == ConstructInit /\ [][Next]_vars

\* Right after the construction, has_more is false, current_line is empty
\* and the runtime is not waiting for a choice.
ConstructedDone ==
    /\ status = "ready"
    /\ ~has_more
    /\ current_line_of(RT) = ""
    /\ ~is_waiting_for_choice

(***************************************************************************)
(* C17 as stated: for every source of declarations only (the empty source  *)
(* among them), the construction succeeds and right after it has_more is   *)
(* false, current_line is empty and the runtime is not waiting for a       *)
(* choice.                                                                 *)
(***************************************************************************)
OnlyDeclarations(src) ==
    \A i \in 1..Len(src) : src[i].k \in {"Temp", "Save"}

RECURSIVE ChoiceLine(_, _, _, _)
ChoiceLine(src, i, depth, index) ==
    IF src[i].depth = depth /\ index = 0 THEN i
    ELSE ChoiceLine(src, i + 1, depth,
                    IF src[i].depth = depth THEN index - 1 ELSE index)

\* The body of the choice at line i is empty.
EmptyBody(src, i) == i = Len(src) \/ src[i + 1].depth <= src[i].depth

\* From line j on, the first line that yields for a run that has left a
\* choice at depth: deeper lines are bodies of the choices that follow it,
\* and a choice no deeper is one more choice of a set the run is leaving,
\* unless a statement of the continuation separates it from that set
\* (fresh).  0 when the script ends first.
RECURSIVE NextYieldFrom(_, _, _, _)
NextYieldFrom(src, j, depth, fresh) ==
    IF j > Len(src) THEN 0
    ELSE IF src[j].depth > depth THEN NextYieldFrom(src, j + 1, depth, fresh)
    ELSE IF src[j].k = "Choice"
        THEN IF fresh /\ src[j].depth = depth THEN j
             ELSE NextYieldFrom(src, j + 1, src[j].depth, FALSE)
    ELSE IF src[j].k = "Line" THEN j
    ELSE NextYieldFrom(src, j + 1, src[j].depth, TRUE)

(***************************************************************************)
(* C18: a select_choice of a choice whose body is empty, returning without *)
(* a runtime error, yields no line of that choice: it yields the first     *)
(* Line or Choice after the gather point, or it returns Done (has_more     *)
(* false, not waiting) when nothing that yields follows the choice set.    *)
(***************************************************************************)
EmptyChoiceGoesToGather ==
    [][(is_waiting_for_choice /\ last'.call.f = "select_choice"
            /\ last'.result = OkR)
        => \E i \in {ChoiceLine(source, Last(trace).pos,
                                source[Last(trace).pos].depth,
                                last'.call.index)} :
             EmptyBody(source, i) =>
                \E j \in {NextYieldFrom(source, i + 1, source[i].depth,
                                        FALSE)} :
                    IF j = 0
                        THEN /\ trace' = trace
                             /\ is_done' /\ current_choices' = None
                        ELSE /\ Len(trace') = Len(trace) + 1
                             /\ Last(trace').pos = j
                             /\ Last(trace').k = source[j].k]_vars

\* The first choice, whose body is empty, has been selected in a script
\* whose second choice has a body: the line after the choice set is shown.
EmptyChoiceSelected ==
    /\ Len(source) = 4
    /\ source[1].k = "Choice" /\ source[2].k = "Choice"
    /\ source[2].depth = 0 /\ source[3].depth = 1 /\ source[3].k = "Line"
    /\ sels = <<0>>
    /\ last.call.f = "select_choice" /\ last.result = OkR
    /\ Last(trace).k = "Line" /\ Last(trace).pos = 4


(***************************************************************************)
(* C19 as stated: in every state in which the runtime is waiting for a     *)
(* choice or has_more is false, current_line returns the empty string.     *)
(***************************************************************************)
CurrentLineEmptyAtChoiceOrDone ==
    (status = "ready" /\ (is_waiting_for_choice \/ ~has_more))
        => current_line_of(RT) = ""

(***************************************************************************)
(* C19, amended: current_line returns the empty string while the runtime   *)
(* is waiting for a choice and once the VM has returned Done; when         *)
(* has_more went false on the final line, current_line returns that line.  *)
(***************************************************************************)
CurrentLineEmptyAtChoiceOrAfterDone ==
    status = "ready" =>
        /\ is_waiting_for_choice => current_line_of(RT) = ""
        /\ (is_done /\ ip = Len(chunk.code)) => current_line_of(RT) = ""
        /\ (is_done /\ ip < Len(chunk.code) /\ ~errored) =>
                /\ Last(trace).k = "Line"
                /\ current_line_of(RT) = Last(trace).texts[1]
                /\ current_line_of(RT) # ""

\* After a choice set, the final line is shown and has_more is false.
FinalLineShownWhenDone ==
    /\ status = "ready" /\ ~errored
    /\ ~has_more /\ ip < Len(chunk.code)
    /\ sels # <<>>
    /\ current_line = Some(Last(trace).texts[1])


(***************************************************************************)
(* parser.rs on the items of Scanner::tokens, for script texts without a   *)
(* choice marker (the choice sets are parsed by line, above).  The parser  *)
(* is [items, pos, errors, next_id, statements]: tokens.peek() is the item *)
(* at pos, None past the last.                                             *)
(***************************************************************************)

\* Scanner::tokens: the results of scan_token before Eof, the errors among
\* them; at most n.
RECURSIVE TokensFrom(_, _)
TokensAfter(out, n) ==
    IF IsEof(out.r) THEN <<>> ELSE <<out.r>> \o TokensFrom(out.sc, n - 1)

TokensFrom(sc, n) == IF n = 0 THEN <<>> ELSE TokensAfter(scan_token(sc), n)

\* Parser::new
ParserNew(items) ==
    [items |-> items, pos |-> 1, errors |-> <<>>, next_id |-> 0,
     statements |-> <<>>]

\* self.tokens.peek(), and the kind it matches
parser_peek(p) == IF p.pos <= Len(p.items) THEN Some(p.items[p.pos]) ELSE None
PeekKind(p) ==
    IF parser_peek(p) = None THEN "None"
    ELSE IF parser_peek(p).v.k = "Ok" THEN parser_peek(p).v.token.kind
    ELSE "Err"
PeekToken(p) == parser_peek(p).v.token

\* Parser::check, current_span, advance (self.tokens.next())
parser_check(p, kind) == PeekKind(p) = kind
current_span(p) ==
    IF PeekKind(p) \in {"None", "Err"} THEN Span(0, 0) ELSE PeekToken(p).span
parser_advance(p) == [p EXCEPT !.pos = @ + 1]

\* ParseError::Lexical (From<LexicalError>), ParseError::Syntax
LexicalE(item) ==
    [k |-> "Lexical", message |-> item.message, span |-> item.span]
SyntaxE(message, span) ==
    [k |-> "Syntax", message |-> message, span |-> span]

\* if let Some(Err(e)) = self.tokens.next() { self.errors.push(e.into()) }
take_error(p) ==
    parser_advance([p EXCEPT !.errors = Append(@, LexicalE(parser_peek(p).v))])
push_syntax(p, message, span) ==
    [p EXCEPT !.errors = Append(@, SyntaxE(message, span))]

\* Parser::synchronize
RECURSIVE synchronize(_)
synchronize(p) ==
    CASE PeekKind(p) = "None" -> p
      [] PeekKind(p) = "Err" -> synchronize(take_error(p))
      [] PeekKind(p) = "NewLine" -> parser_advance(p)
      [] PeekKind(p) = "Eof" -> p
      [] OTHER -> synchronize(parser_advance(p))

\* The characters of a lexeme as one string.
RECURSIVE JoinChars(_)
JoinChars(chars) ==
    IF chars = <<>> THEN "" ELSE Head(chars) \o JoinChars(Tail(chars))

\* str::parse::<f64> on a lexeme of scan_number, for the whole numbers.
DigitValue(ch) ==
    CASE ch = "0" -> 0 [] ch = "1" -> 1 [] ch = "2" -> 2 [] ch = "3" -> 3
      [] ch = "4" -> 4 [] ch = "5" -> 5 [] ch = "6" -> 6 [] ch = "7" -> 7
      [] ch = "8" -> 8 [] ch = "9" -> 9

RECURSIVE WholeNumber(_)
WholeNumber(chars) ==
    IF chars = <<>> THEN 0
    ELSE 10 * WholeNumber(SubSeq(chars, 1, Len(chars) - 1))
            + DigitValue(Last(chars))

ParseNumber(chars) ==
    IF Head(chars) = "-" THEN 0 - WholeNumber(Tail(chars))
    ELSE WholeNumber(chars)

\* Parser::parse_literal: [p, value]; the strings of the model's texts have
\* no escape sequence.
parse_literal(p) ==
    CASE PeekKind(p) = "String" ->
            [p |-> parser_advance(p),
             value |-> StringV(JoinChars(
                        SubSeq(PeekToken(p).lexeme, 2,
                               Len(PeekToken(p).lexeme) - 1)))]
      [] PeekKind(p) = "Number" ->
            [p |-> parser_advance(p),
             value |-> NumberV(ParseNumber(PeekToken(p).lexeme))]
      [] PeekKind(p) = "True" ->
            [p |-> parser_advance(p), value |-> BoolV(TRUE)]
      [] PeekKind(p) = "False" ->
            [p |-> parser_advance(p), value |-> BoolV(FALSE)]
      [] OTHER ->
            [p |-> push_syntax(p, "Expected literal value", current_span(p)),
             value |-> BoolV(FALSE)]

\* A declaration or an assignment, as the resolver and the compiler read
\* it: pos is span.start.
VarStmt(kind, id, name, value, start) ==
    [k |-> kind, id |-> id, name |-> name, value |-> value, pos |-> start]

push_statement(p, stmt) == [p EXCEPT !.statements = Append(@, stmt)]

\* Parser::parse_var_binding after the literal was parsed
binding_with_literal(lit, kind, id, name, start) ==
    push_statement(lit.p, VarStmt(kind, id, name, lit.value, start))

\* Parser::parse_var_binding after the identifier was consumed
binding_after_name(p, kind, keyword, id, name, start) ==
    IF parser_check(p, "Equals")
        THEN binding_with_literal(parse_literal(parser_advance(p)),
                                  kind, id, name, start)
        ELSE push_statement(
                synchronize(push_syntax(p,
                    "Expected '=' in " \o keyword \o " statement",
                    current_span(p))),
                VarStmt(kind, id, name, BoolV(FALSE), start))

\* Parser::parse_var_binding after the keyword was consumed and the id taken
parse_var_binding(p, kind, keyword, id, start) ==
    IF parser_check(p, "Identifier")
        THEN binding_after_name(parser_advance(p), kind, keyword, id,
                                JoinChars(PeekToken(p).lexeme), start)
        ELSE push_statement(
                synchronize(push_syntax(p,
                    "Expected identifier after '" \o keyword \o "'",
                    current_span(p))),
                VarStmt(kind, id, "", BoolV(FALSE), start))

\* Parser::temp_declaration, save_declaration, assignment
var_statement(p, kind, keyword) ==
    parse_var_binding([parser_advance(p) EXCEPT !.next_id = @ + 1],
                      kind, keyword, p.next_id, PeekToken(p).span.start)

\* Parser::parse_text_parts: acc is [parts, start]; [p, parts, start] when
\* the loop breaks.
RECURSIVE text_parts_loop(_, _)
StartedAt(acc, offset) ==
    IF acc.start = None THEN [acc EXCEPT !.start = Some(offset)] ELSE acc
WithPart(acc, part) == [acc EXCEPT !.parts = Append(@, part)]

\* after the OpenBrace and the Identifier were consumed
interpolation_close(p, acc, name, id_span) ==
    IF parser_check(p, "CloseBrace")
        THEN text_parts_loop([parser_advance(p) EXCEPT !.next_id = @ + 1],
                             WithPart(acc, VarRef(p.next_id, name)))
        ELSE text_parts_loop(
                push_syntax(p, "Expected '}' after variable name", id_span),
                acc)

\* after the OpenBrace was consumed
interpolation_name(p, acc, open_span) ==
    IF parser_check(p, "Identifier")
        THEN interpolation_close(parser_advance(p), acc,
                                 JoinChars(PeekToken(p).lexeme),
                                 PeekToken(p).span)
        ELSE text_parts_loop(
                push_syntax(p, "Expected variable name after '{'", open_span),
                acc)

text_parts_loop(p, acc) ==
    CASE PeekKind(p) = "TextSegment" ->
            text_parts_loop(
                parser_advance(p),
                WithPart(StartedAt(acc, PeekToken(p).span.start),
                         Literal(JoinChars(PeekToken(p).lexeme))))
      [] PeekKind(p) = "OpenBrace" ->
            interpolation_name(parser_advance(p),
                               StartedAt(acc, PeekToken(p).span.start),
                               PeekToken(p).span)
      [] PeekKind(p) = "Err" ->
            [p |-> take_error(p), parts |-> acc.parts, start |-> acc.start]
      [] OTHER -> [p |-> p, parts |-> acc.parts, start |-> acc.start]

parse_text_parts(p) == text_parts_loop(p, [parts |-> <<>>, start |-> None])

\* Parser::line_statement
LineStmt(text) ==
    push_statement(text.p,
        [k |-> "Line", parts |-> text.parts,
         pos |-> IF text.start = None THEN 0 ELSE text.start.v])
line_statement(p) == LineStmt(parse_text_parts(p))

\* Parser::parse, the loop (try_parse_statement among its cases)
RECURSIVE parse_loop(_)
parse_loop(p) ==
    CASE PeekKind(p) = "Err" -> parse_loop(synchronize(take_error(p)))
      [] PeekKind(p) = "Temp" -> parse_loop(var_statement(p, "Temp", "temp"))
      [] PeekKind(p) = "Save" -> parse_loop(var_statement(p, "Save", "save"))
      [] PeekKind(p) = "Set" -> parse_loop(var_statement(p, "Set", "set"))
      [] PeekKind(p) \in {"TextSegment", "OpenBrace"} ->
            parse_loop(line_statement(p))
      [] PeekKind(p) \in {"None", "Eof"} -> p
      [] PeekKind(p) \in {"NewLine", "Indent", "Dedent"} ->
            parse_loop(parser_advance(p))
      [] PeekKind(p) \in {"Identifier", "String", "Number", "True", "False",
                          "Equals", "CloseBrace"} ->
            parse_loop(parser_advance(
                push_syntax(p, "Unexpected token: " \o PeekKind(p),
                            current_span(p))))

\* Parser::new(Scanner::new(script).tokens()).parse(): the parser at the
\* end; the result is Err(errors) unless errors is empty.
parse_text(text) ==
    parse_loop(ParserNew(TokensFrom(ScannerNew(text), Len(text) + 2)))

\* A statement as a line of the scripts by line: its kind and the name it
\* declares, assigns or (first) reads.
LineOfStmt(stmt) ==
    IF stmt.k = "Line"
        THEN SrcLine(0, "Line",
                IF \E n \in 1..Len(stmt.parts) : stmt.parts[n].k = "VarRef"
                    THEN stmt.parts[CHOOSE n \in 1..Len(stmt.parts) :
                                        stmt.parts[n].k = "VarRef"].name
                    ELSE "")
        ELSE SrcLine(0, stmt.k, stmt.name)

LinesOfScript(script) == [n \in 1..Len(script) |-> LineOfStmt(script[n])]

(***************************************************************************)
(* Scripts with `extern` lines, from their text to their statements: the   *)
(* tokens of Scanner::tokens, and the statement Parser::statement makes of *)
(* the tokens of each line.  The scanner has no keyword but temp, save and *)
(* set, and no Extern token: a line that starts with any other word is a   *)
(* text segment, and the parser makes a dialogue line of it.               *)
(***************************************************************************)
MaxExternLines == 3

ExternKw == <<"e", "x", "t", "e", "r", "n", " ">>
AssignOne == <<" ", "=", " ", "1">>

\* `extern n`, `temp n = 1`, `save n = 1`, `set n = 1`, `Hi {n}`, `Hi`
ExternLineTexts ==
    UNION {{ExternKw \o <<n>>, TempKw \o <<n>> \o AssignOne,
            SaveKw \o <<n>> \o AssignOne, SetKw \o <<n>> \o AssignOne,
            <<"H", "i", " ", "{", n, "}">>} : n \in Names}
        \cup {<<"H", "i">>}

RECURSIVE ExternScripts(_)
ExternScripts(n) ==
    IF n = 0 THEN {<<>>}
    ELSE LET shorter == ExternScripts(n - 1)
         IN shorter \cup
            {Append(p, t) : p \in {q \in shorter : Len(q) = n - 1},
                            t \in ExternLineTexts}

\* The text of a script: its lines, each ended by a newline.
RECURSIVE ScriptText(_)
ScriptText(lines) ==
    IF lines = <<>> THEN <<>>
    ELSE Head(lines) \o <<"\n">> \o ScriptText(Tail(lines))

\* The lines of a text.
RECURSIVE SplitLines(_, _)
SplitLines(text, line) ==
    IF text = <<>> THEN IF line = <<>> THEN <<>> ELSE <<line>>
    ELSE IF Head(text) = "\n" THEN <<line>> \o SplitLines(Tail(text), <<>>)
    ELSE SplitLines(Tail(text), Append(line, Head(text)))

\* The script of a text, by line.
ScriptOf(text) == LinesOfScript(parse_text(text).statements)

\* with_storage_and_host on the text of a script: the runtime, or the
\* semantic errors.
ExternInit ==
    /\ \E lines \in ExternScripts(MaxExternLines) :
        \E src \in {ScriptOf(ScriptText(lines))} :
            /\ scanner = ScannerNew(ScriptText(lines))
            /\ IF Resolves(src) THEN RuntimeNew(src) ELSE Rejected(src)
    /\ scanned = None
    /\ calls = 0
    /\ ResolverIdle

SpecExtern == ExternInit /\ [][Next]_vars

\* The text has a line `extern x` and, later, a line `set x = 1`.
DeclaresExternThenSets(text, x) ==
    \E lines \in {SplitLines(text, <<>>)} :
        \E i, j \in 1..Len(lines) :
            /\ i < j
            /\ lines[i] = ExternKw \o <<x>>
            /\ lines[j] = SetKw \o <<x>> \o AssignOne

(***************************************************************************)
(* C20: for a script that declares `extern x` and later contains           *)
(* `set x = <literal>`, the construction fails with the semantic error     *)
(* AssignmentToExtern of x, reports no UndefinedVariable of x, and the     *)
(* resolver records no binding for the assignment.                         *)
(***************************************************************************)
AssignmentToExternRejected ==
    \A x \in Names :
        (last.call = NewCall /\ DeclaresExternThenSets(scanner.source, x))
            => \E r \in {analyze(parse(source))} :
                /\ status = "rejected"
                /\ last.result = SemanticR(r.errors)
                /\ \E n \in 1..Len(r.errors) :
                        /\ r.errors[n].k = "AssignmentToExtern"
                        /\ r.errors[n].name = x
                /\ \A n \in 1..Len(r.errors) :
                        ~(r.errors[n].k = "UndefinedVariable"
                            /\ r.errors[n].name = x)
                /\ \A n \in 1..Len(parse(source)) :
                        (parse(source)[n].k = "Set"
                            /\ parse(source)[n].name = x)
                        => parse(source)[n].id \notin
                                (DOMAIN r.bindings \cup DOMAIN r.save_bindings
                                    \cup DOMAIN r.extern_bindings)

\* The text has a line `extern x` and, later, a line `Hi {x}`.
DeclaresExternThenReads(text, x) ==
    \E lines \in {SplitLines(text, <<>>)} :
        \E i, j \in 1..Len(lines) :
            /\ i < j
            /\ lines[i] = ExternKw \o <<x>>
            /\ lines[j] = <<"H", "i", " ", "{", x, "}">>

(***************************************************************************)
(* C21: for a script that declares `extern x` and later shows a line with  *)
(* {x}, the construction succeeds and the chunk reads x with GetHost of x  *)
(* (and with no GetLocal or GetStorage in its place).                      *)
(***************************************************************************)
ExternReadCompilesToGetHost ==
    \A x \in Names :
        (last.call = NewCall /\ DeclaresExternThenReads(scanner.source, x))
            => /\ status = "ready"
               /\ \E n \in 1..Len(chunk.code) : chunk.code[n] = GetHost(x)

\* The line declares x: `temp x = 1`, `save x = 1` or `extern x`.
DeclaresName(line, x) ==
    line \in {TempKw \o <<x>> \o AssignOne, SaveKw \o <<x>> \o AssignOne,
              ExternKw \o <<x>>}

\* The lines that declare x, and the first of them.
DeclarationsOf(lines, x) == {i \in 1..Len(lines) : DeclaresName(lines[i], x)}
Redeclarations(lines, x) ==
    IF DeclarationsOf(lines, x) = {} THEN {}
    ELSE DeclarationsOf(lines, x) \ {Min(DeclarationsOf(lines, x))}
FirstTempNames(lines) ==
    {x \in Names :
        /\ DeclarationsOf(lines, x) # {}
        /\ lines[Min(DeclarationsOf(lines, x))] = TempKw \o <<x>> \o AssignOne}

(***************************************************************************)
(* C22: every declaration (temp, save or extern) of a name that an earlier *)
(* line of the script declared gives a Shadowing error with the span of    *)
(* the first declaration as its original, records no binding for the       *)
(* declaration and takes no slot; the later redeclarations are reported    *)
(* too, the resolution having gone on.                                     *)
(***************************************************************************)
RedeclarationIsShadowing ==
    last.call = NewCall =>
        \E lines \in {SplitLines(scanner.source, <<>>)},
           r \in {analyze(parse(source))} :
            /\ \A x \in Names :
                \A j \in Redeclarations(lines, x) :
                    /\ \E n \in 1..Len(r.errors) :
                            r.errors[n] =
                                Shadowing(x, j, Min(DeclarationsOf(lines, x)))
                    /\ "id" \in DOMAIN parse(source)[j]
                    /\ parse(source)[j].id \notin
                            (DOMAIN r.bindings \cup DOMAIN r.save_bindings
                                \cup DOMAIN r.extern_bindings)
            /\ r.next_slot = Cardinality(FirstTempNames(lines))

(***************************************************************************)
(* Scripts of choices, temp declarations and lines that read a variable,   *)
(* whether they resolve or not: the scopes of the resolver.                *)
(***************************************************************************)
ScopeKinds ==
    {[k |-> "Choice", name |-> ""]}
        \cup {[k |-> k, name |-> n] : k \in {"Temp", "Line"}, n \in Names}

RECURSIVE ScopeSources(_)
ScopeSources(n) ==
    IF n = 0 THEN {<<>>}
    ELSE LET shorter == ScopeSources(n - 1)
         IN shorter \cup
            UNION {{Append(p, l) : l \in NextLinesOf(p, ScopeKinds)} :
                        p \in {q \in shorter : Len(q) = n - 1}}

ScopeInit ==
    /\ \E src \in ScopeSources(MaxNodes) :
            IF Resolves(src) THEN RuntimeNew(src) ELSE Rejected(src)
    /\ scanner = ScannerNew(<<>>)
    /\ scanned = None
    /\ calls = 0
    /\ ResolverIdle

SpecScopes == ScopeInit /\ [][Next]_vars

\* Line j lies in the block of line i: in its branch or in a branch nested
\* in it, after it.
InBlockOf(src, i, j) ==
    i < j /\ \A k \in i..j : src[k].depth >= src[i].depth

\* The temp declarations of x whose block holds line j.
TempsInScope(src, j, x) ==
    {i \in 1..(j - 1) : /\ src[i].k = "Temp" /\ src[i].name = x
                        /\ InBlockOf(src, i, j)}

\* The temp declarations in scope at line j that are not redeclarations.
LiveTemps(src, j) ==
    {i \in 1..(j - 1) : /\ src[i].k = "Temp"
                        /\ InBlockOf(src, i, j)
                        /\ TempsInScope(src, i, src[i].name) = {}}

\* Parser::next_id in source order: the NodeId of line j.
NodeIdAt(src, j) == Cardinality({i \in 1..(j - 1) : src[i].name # ""})

(***************************************************************************)
(* C23: a temp is visible in its branch and the branches nested in it      *)
(* only.  A temp declaration is a Shadowing error exactly when a temp of   *)
(* the same name is in scope (so never for a temp of a sibling branch), a  *)
(* reference is UndefinedVariable exactly when no temp of its name is in   *)
(* scope (so from a sibling branch and after the choice set), and a        *)
(* declared temp takes the slot after those of the temps in scope (so the  *)
(* first temps of sibling branches take the same slot).                    *)
(***************************************************************************)
TempVisibleInItsBranchOnly ==
    last.call = NewCall =>
        \E r \in {analyze(parse(source))} :
            \A j \in 1..Len(source) :
                /\ source[j].k = "Temp" =>
                    IF TempsInScope(source, j, source[j].name) # {}
                        THEN /\ \E n \in 1..Len(r.errors) :
                                    /\ r.errors[n].k = "Shadowing"
                                    /\ r.errors[n].name = source[j].name
                                    /\ r.errors[n].span = j
                                    /\ r.errors[n].original \in
                                        TempsInScope(source, j, source[j].name)
                             /\ NodeIdAt(source, j) \notin DOMAIN r.bindings
                        ELSE /\ \A n \in 1..Len(r.errors) :
                                    r.errors[n].k = "Shadowing"
                                        => r.errors[n].span # j
                             /\ NodeIdAt(source, j) \in DOMAIN r.bindings
                             /\ r.bindings[NodeIdAt(source, j)] =
                                    Cardinality(LiveTemps(source, j))
                /\ source[j].k = "Line" /\ source[j].name # "" =>
                    IF TempsInScope(source, j, source[j].name) # {}
                        THEN /\ NodeIdAt(source, j) \in DOMAIN r.bindings
                             /\ \A n \in 1..Len(r.errors) :
                                    r.errors[n].k = "UndefinedVariable"
                                        => r.errors[n].span #
                                                NodeIdAt(source, j)
                        ELSE /\ NodeIdAt(source, j) \notin DOMAIN r.bindings
                             /\ \E n \in 1..Len(r.errors) :
                                    r.errors[n] =
                                        UndefinedVariable(source[j].name,
                                                          NodeIdAt(source, j))

\* Two sibling branches each declare the same name as their first temp,
\* with no error and in the same slot, and the line after the choice set
\* that reads the name is rejected.
SiblingTempsShareSlot ==
    /\ last.call = NewCall
    /\ Len(source) = 4
    /\ source[1].k = "Choice" /\ source[1].depth = 0
    /\ source[2].k = "Temp" /\ source[2].depth = 1
    /\ source[3].k = "Choice" /\ source[3].depth = 0
    /\ source[4] = source[2]
    /\ status = "ready"
    /\ analyze(parse(source)).bindings[0] = analyze(parse(source)).bindings[1]

TempReadAfterChoiceSetRejected ==
    /\ last.call = NewCall
    /\ Len(source) = 3
    /\ source[1].k = "Choice" /\ source[1].depth = 0
    /\ source[2].k = "Temp" /\ source[2].depth = 1
    /\ source[3].k = "Line" /\ source[3].depth = 0
    /\ source[3].name = source[2].name
    /\ status = "rejected"

(***************************************************************************)
(* The construction from the text of a script: lib.rs, with the scanner    *)
(* and the parser above.  The texts are sequences of lines, some of them   *)
(* with a lexical or a syntax error.                                       *)
(***************************************************************************)
MaxTextLines == 3

ParseR(errors) == [k |-> "Parse", errors |-> errors]

\* `temp a = 1`, `temp a = true`, `set a = false`, `temp a 1`, `Hi {a}`,
\* `Hi {b}`, `Hi` and `}`
TextLines ==
    {TempKw \o <<"a">> \o AssignOne,
     TempKw \o <<"a", " ", "=", " ">> \o TrueKw,
     SetKw \o <<"a", " ", "=", " ">> \o FalseKw,
     TempKw \o <<"a", " ", "1">>,
     <<"H", "i", " ", "{", "a", "}">>,
     <<"H", "i", " ", "{", "b", "}">>,
     <<"H", "i">>,
     <<"}">>}

RECURSIVE TextScripts(_)
TextScripts(n) ==
    IF n = 0 THEN {<<>>}
    ELSE LET shorter == TextScripts(n - 1)
         IN shorter \cup
            {Append(p, t) : p \in {q \in shorter : Len(q) = n - 1},
                            t \in TextLines}

\* Runtime::with_storage_and_host: parse()?, analyze()?, compile, step_vm
resolved_or_rejected(script, r) ==
    IF r.errors # <<>>
        THEN RejectedWith(LinesOfScript(script), SemanticR(r.errors))
        ELSE construct(script, LinesOfScript(script), MemoryStorageNew)

with_storage_and_host(text) ==
    \E p \in {parse_text(text)} :
        IF p.errors # <<>>
            THEN RejectedWith(LinesOfScript(p.statements), ParseR(p.errors))
            ELSE resolved_or_rejected(p.statements, analyze(p.statements))

TextInit ==
    /\ \E lines \in TextScripts(MaxTextLines) :
            /\ scanner = ScannerNew(ScriptText(lines))
            /\ with_storage_and_host(ScriptText(lines))
    /\ scanned = None
    /\ calls = 0
    /\ ResolverIdle

SpecText == TextInit /\ [][Next]_vars

\* The text has a line the scanner or the parser rejects: a lone `}`, or a
\* declaration without `=`.
HasErrorLine(text) ==
    \E lines \in {SplitLines(text, <<>>)} :
        \E i \in 1..Len(lines) :
            lines[i] \in {<<"}">>, TempKw \o <<"a", " ", "1">>}

\* The text has a line that reads x and no line that declares x.
ReadsUndeclared(text, x) ==
    \E lines \in {SplitLines(text, <<>>)} :
        /\ \E j \in 1..Len(lines) : lines[j] = <<"H", "i", " ", "{", x, "}">>
        /\ \A i \in 1..Len(lines) : ~IsPrefix(TempKw \o <<x>>, lines[i])

(***************************************************************************)
(* C24: the construction from a text with a lexical or syntax error on one *)
(* line and a read of an undeclared variable on another returns a list     *)
(* that holds the lexical or syntax error and the UndefinedVariable.       *)
(***************************************************************************)
AllPhasesReported ==
    \A x \in Names :
        (/\ last.call = NewCall
         /\ HasErrorLine(scanner.source)
         /\ ReadsUndeclared(scanner.source, x))
            => /\ status = "rejected"
               /\ \E n \in 1..Len(last.result.errors) :
                        last.result.errors[n].k \in {"Lexical", "Syntax"}
               /\ \E n \in 1..Len(last.result.errors) :
                        /\ last.result.errors[n].k = "UndefinedVariable"
                        /\ last.result.errors[n].name = x

\* The text starts with `temp a = true` and `Hi {a}` and has no line with
\* an error or an undeclared variable.
DeclaresTrueThenShows(text) ==
    \E lines \in {SplitLines(text, <<>>)} :
        /\ Len(lines) >= 2
        /\ lines[1] = TempKw \o <<"a", " ", "=", " ">> \o TrueKw
        /\ lines[2] = <<"H", "i", " ", "{", "a", "}">>
        /\ \A i \in 3..Len(lines) : lines[i] = <<"H", "i">>

(***************************************************************************)
(* C25: in `temp a = true` the scanner gives a True token for `true` (the  *)
(* fourth token of the text, after Temp, Identifier and Equals), the       *)
(* construction succeeds and the line `Hi {a}` that follows renders as     *)
(* `Hi true`.                                                              *)
(***************************************************************************)
TrueScannedAsBoolean ==
    (last.call = NewCall /\ DeclaresTrueThenShows(scanner.source))
        => /\ \E items \in {TokensFrom(scanner, 4)} :
                /\ Len(items) = 4
                /\ items[4].k = "Ok"
                /\ items[4].token.kind = "True"
           /\ status = "ready"
           /\ trace # <<>>
           /\ trace[1].texts = <<"Hi true">>

\* The scanner stands in Text mode before a character of the line.
InText == scanner.mode = "Text" /\ peek(scanner) \notin {None, Some("\n"), Some("\r")}

\* The token of one escaped brace: two characters, the lexeme one brace.
EscapedBrace(brace) ==
    OkT(Token("TextSegment", <<brace>>,
              Span(scanner.current, scanner.current + 2)))

(***************************************************************************)
(* C26: in Text mode `{{` gives one TextSegment holding `{` and `}}` one   *)
(* holding `}`, the mode staying Text; a `}` not followed by `}` gives a   *)
(* lexical error; a `{` not followed by `{` gives OpenBrace and enters     *)
(* Interpolation mode.  Interpolation mode is entered by an OpenBrace only *)
(* and left by a CloseBrace or a NewLine only.                             *)
(***************************************************************************)
BracesInText ==
    [][/\ (InText /\ peek(scanner) = Some("{")
                /\ peek_next(scanner) = Some("{"))
            => (scanned' = EscapedBrace("{") /\ scanner'.mode = "Text"
                    /\ scanner'.current = scanner.current + 2)
       /\ (InText /\ peek(scanner) = Some("}")
                /\ peek_next(scanner) = Some("}"))
            => (scanned' = EscapedBrace("}") /\ scanner'.mode = "Text"
                    /\ scanner'.current = scanner.current + 2)
       /\ (InText /\ peek(scanner) = Some("}")
                /\ peek_next(scanner) # Some("}"))
            => (IsErr(scanned') /\ scanner'.mode = "Text")
       /\ (InText /\ peek(scanner) = Some("{")
                /\ peek_next(scanner) # Some("{"))
            => (/\ scanned' = OkT(Token("OpenBrace", <<"{">>,
                            Span(scanner.current, scanner.current + 1)))
                /\ scanner'.mode = "Interpolation")
       /\ (scanner.mode # "Interpolation" /\ scanner'.mode = "Interpolation")
            => (scanned'.k = "Ok" /\ scanned'.token.kind = "OpenBrace")
       /\ (scanner.mode = "Interpolation" /\ scanner'.mode # "Interpolation")
            => (/\ scanned'.k = "Ok"
                /\ scanned'.token.kind \in {"CloseBrace", "NewLine"})
      ]_vars

\* After some text, `{{` was scanned as one segment, and the scanner is
\* still in Text mode.
EscapedBraceScanned ==
    /\ scanner.mode = "Text"
    /\ scanned # None /\ scanned.k = "Ok"
    /\ scanned.token.kind = "TextSegment"
    /\ scanned.token.lexeme = <<"{">>
    /\ scanned.token.span.start > 0
    /\ scanned.token.span.end = scanned.token.span.start + 2

(***************************************************************************)
(* The scanner on indented texts: lines of one letter after 0 to MaxIndent *)
(* spaces, the last line with or without its newline.                      *)
(***************************************************************************)
MaxIndent == 3
MaxIndentLines == 3
MaxIndentCalls == 18

RECURSIVE Spaces(_)
Spaces(n) == IF n = 0 THEN <<>> ELSE <<" ">> \o Spaces(n - 1)

RECURSIVE IndentedLines(_)
IndentedLines(n) ==
    IF n = 0 THEN {<<>>}
    ELSE LET shorter == IndentedLines(n - 1)
         IN shorter \cup
            {Append(p, Spaces(d) \o <<"a">>) :
                p \in {q \in shorter : Len(q) = n - 1}, d \in 0..MaxIndent}

\* The text without the newline of its last line.
WithoutLastNewline(text) ==
    IF text = <<>> THEN text ELSE SubSeq(text, 1, Len(text) - 1)

IndentTexts ==
    UNION {{ScriptText(lines), WithoutLastNewline(ScriptText(lines))} :
                lines \in IndentedLines(MaxIndentLines)}

IndentInit ==
    /\ \E text \in IndentTexts : scanner = ScannerNew(text)
    /\ scanned = None
    /\ calls = 0
    /\ ResolverIdle
    /\ RuntimeNew(<<>>)

IndentNext == NextTokenWithin(MaxIndentCalls)

SpecIndent == IndentInit /\ [][IndentNext]_vars

IsToken(r, kind) == r # None /\ r.k = "Ok" /\ r.token.kind = kind

\* The levels of the indent stack above spaces.
LevelsAbove(levels, spaces) ==
    Cardinality({n \in 1..Len(levels) : levels[n] > spaces})

\* The scanner stands, in Indentation mode and with no Dedent pending,
\* before a content line of fewer leading spaces than the level on top of
\* the indent stack, and the count is a level of the stack.
AtDedentOf(k) ==
    /\ scanner.mode = "Indentation" /\ scanner.pending_dedents = 0
    /\ \E start \in {process_line_start(scanner)} :
        /\ ~IsErr(start.r) /\ start.r # None
        /\ start.r.v < Last(scanner.indent_stack)
        /\ \E n \in 1..Len(scanner.indent_stack) :
                scanner.indent_stack[n] = start.r.v
        /\ k = LevelsAbove(scanner.indent_stack, start.r.v)

\* The scan of the text meets no lexical error.
ScansWithoutError(text) ==
    \E items \in {TokensFrom(ScannerNew(text), MaxIndentCalls)} :
        \A n \in 1..Len(items) : items[n].k = "Ok"

(***************************************************************************)
(* C27: in a scan without lexical errors, at a line that closes k >= 1     *)
(* levels the scanner gives a Dedent and owes k - 1 more, and while it     *)
(* owes a Dedent at a content line the next token is a Dedent: the k       *)
(* Dedents come one after the other, before the first token of the content *)
(* of the line.                                                            *)
(***************************************************************************)
DedentsBeforeContent ==
    [][ScansWithoutError(scanner.source) =>
       /\ \A k \in 1..MaxIndentLines :
            AtDedentOf(k) => (/\ IsToken(scanned', "Dedent")
                              /\ scanner'.pending_dedents = k - 1)
       /\ (scanner.pending_dedents > 0 /\ ~scanner_is_at_end(scanner))
            => (/\ IsToken(scanned', "Dedent")
                /\ scanner'.pending_dedents = scanner.pending_dedents - 1)
      ]_vars

\* The items of the kind among the items.
CountKind(items, kind) ==
    Cardinality({n \in 1..Len(items) : items[n].token.kind = kind})

(***************************************************************************)
(* C28: when a scan without lexical errors has returned Eof, the token     *)
(* stream holds as many Dedents as Indents.                                *)
(***************************************************************************)
IndentsMatchedAtEof ==
    (IsEof(scanned) /\ ScansWithoutError(scanner.source))
        => \E items \in {TokensFrom(ScannerNew(scanner.source),
                                    MaxIndentCalls)} :
                CountKind(items, "Dedent") = CountKind(items, "Indent")

\* The result is the error of the message.
IsErrorOf(r, message) == r # None /\ IsErr(r) /\ r.message = message

\* The scanner stands, in Indentation mode and with no Dedent pending,
\* before a content line of fewer leading spaces than the level on top of
\* the indent stack, and the count is no level of the stack.
AtOffLevelDedent ==
    /\ scanner.mode = "Indentation" /\ scanner.pending_dedents = 0
    /\ \E start \in {process_line_start(scanner)} :
        /\ ~IsErr(start.r) /\ start.r # None
        /\ start.r.v < Last(scanner.indent_stack)
        /\ \A n \in 1..Len(scanner.indent_stack) :
                scanner.indent_stack[n] # start.r.v

(***************************************************************************)
(* C29: a scan_token call returns the error `Inconsistent indentation`     *)
(* exactly when it meets a content line whose leading-space count is       *)
(* smaller than the current level and equal to no level of the indent      *)
(* stack; a count equal to a level of the stack never raises it.           *)
(***************************************************************************)
InconsistentIndentationOffLevel ==
    [][/\ AtOffLevelDedent
            <=> IsErrorOf(scanned', "Inconsistent indentation")
       /\ \A k \in 1..MaxIndentLines :
            AtDedentOf(k) => IsToken(scanned', "Dedent")
      ]_vars

\* The error was returned for a line between two levels of the stack.
InconsistentIndentationScanned ==
    /\ IsErrorOf(scanned, "Inconsistent indentation")
    /\ \E text \in {scanner.source} :
        \E first, second \in 1..MaxIndent :
            /\ second < first
            /\ SubSeq(text, 1, first + 1) = Spaces(first) \o <<"a">>
            /\ \E n \in 1..Len(text) :
                 /\ text[n] = "\n"
                 /\ n + second + 1 <= Len(text)
                 /\ SubSeq(text, n + 1, n + second + 1)
                        = Spaces(second) \o <<"a">>
                 /\ scanner.current = n + second

(***************************************************************************)
(* The layout of the chunk read from the script alone: the number of       *)
(* instructions every statement compiles to, and from these the offsets    *)
(* of each choice set, of its branches and of its gather point.            *)
(***************************************************************************)
TextSize(parts) == IF Len(parts) > 1 THEN Len(parts) + 1 ELSE 1

RECURSIVE BlockSize(_), TextsSize(_), BranchesSize(_), BranchStarts(_, _),
          BlockLayouts(_, _)

\* The instructions of the texts of the choices.
TextsSize(choices) ==
    IF choices = <<>> THEN 0
    ELSE TextSize(Head(choices).parts) + TextsSize(Tail(choices))

\* The instructions of the branches of the choices, each with its Jump.
BranchesSize(choices) ==
    IF choices = <<>> THEN 0
    ELSE BlockSize(Head(choices).nested) + 1 + BranchesSize(Tail(choices))

StmtSize(stmt) ==
    CASE stmt.k = "Temp" -> 1
      [] stmt.k \in {"Save", "Set"} -> 2
      [] stmt.k = "Line" -> TextSize(stmt.parts) + 1
      [] stmt.k = "ChoiceSet" ->
            TextsSize(stmt.choices) + 1 + BranchesSize(stmt.choices)

BlockSize(stmts) ==
    IF stmts = <<>> THEN 0
    ELSE StmtSize(Head(stmts)) + BlockSize(Tail(stmts))

\* The offset of the first instruction of every branch, the first branch
\* being at from.
BranchStarts(choices, from) ==
    IF choices = <<>> THEN <<>>
    ELSE <<from>> \o BranchStarts(Tail(choices),
                                  from + BlockSize(Head(choices).nested) + 1)

\* The choice set at the head of stmts, whose ChoiceSet instruction is at
\* offset, and the choice sets nested in its branches.
ChoiceSetLayouts(choices, offset, starts) ==
    {[offset |-> offset, targets |-> starts,
      gather |-> offset + 1 + BranchesSize(choices)]}
        \cup UNION {BlockLayouts(choices[i].nested, starts[i]) :
                        i \in 1..Len(choices)}

\* The choice sets of the statements compiled from offset base on.
BlockLayouts(stmts, base) ==
    IF stmts = <<>> THEN {}
    ELSE (IF Head(stmts).k = "ChoiceSet"
            THEN ChoiceSetLayouts(
                    Head(stmts).choices,
                    base + TextsSize(Head(stmts).choices),
                    BranchStarts(Head(stmts).choices,
                                 base + TextsSize(Head(stmts).choices) + 1))
            ELSE {})
         \cup BlockLayouts(Tail(stmts), base + StmtSize(Head(stmts)))

\* The offset of the Jump that ends branch i of the choice set.
BranchEnd(layout, i) ==
    (IF i < Len(layout.targets) THEN layout.targets[i + 1]
     ELSE layout.gather) - 1

\* The offsets of the chunk that hold the instruction op.
OffsetsOf(code, op) == {o \in 0..(Len(code) - 1) : At(code, o).op = op}

\* The choice set of the layout is compiled as the layout says.
CompiledAs(code, layout) ==
    /\ At(code, layout.offset).op = "ChoiceSet"
    /\ At(code, layout.offset).targets = layout.targets
    /\ \A i \in 1..Len(layout.targets) :
            At(code, BranchEnd(layout, i)) = Jump(layout.gather)
    /\ layout.gather <= Len(code) - 1

(***************************************************************************)
(* C30: in the compiled chunk every Jump target and every ChoiceSet target *)
(* is an offset of the chunk; the targets of each ChoiceSet are the        *)
(* offsets of the first instructions of its branches; the Jump that ends   *)
(* a branch targets the gather offset of its own choice set, which is at   *)
(* most the offset of the trailing Return; and the chunk has no other      *)
(* Jump.                                                                   *)
(***************************************************************************)
TargetsInChunk ==
    \E code \in {chunk.code} :
        /\ \A o \in OffsetsOf(code, "Jump") :
                At(code, o).target \in 0..(Len(code) - 1)
        /\ \A o \in OffsetsOf(code, "ChoiceSet") :
                \A i \in 1..Len(At(code, o).targets) :
                    At(code, o).targets[i] \in 0..(Len(code) - 1)
        /\ At(code, Len(code) - 1) = Return
        /\ \E layouts \in {BlockLayouts(parse(source), 0)} :
            /\ \A layout \in layouts : CompiledAs(code, layout)
            /\ OffsetsOf(code, "ChoiceSet")
                    = {layout.offset : layout \in layouts}
            /\ OffsetsOf(code, "Jump")
                    = UNION {{BranchEnd(layout, i) :
                                    i \in 1..Len(layout.targets)} :
                                layout \in layouts}

\* A run is in the branch of a choice set nested in a branch of another,
\* the gather point of the inner set being the Jump that ends the outer
\* branch.
NestedChoiceSetCompiled ==
    \E inner, outer \in BlockLayouts(parse(source), 0) :
        /\ outer.offset < inner.offset
        /\ inner.gather < outer.gather
        /\ At(chunk.code, inner.gather) = Jump(outer.gather)
        /\ ip > inner.offset /\ ip <= inner.gather

(***************************************************************************)
(* The control path of the dispatch loop read from the code alone: the     *)
(* offsets run visits from offset at, a Jump leading to its target, a      *)
(* Line, a ChoiceSet or a Return ending the path, every other instruction  *)
(* leading to the next offset.  An error or a panic only cuts the path     *)
(* short.  fuel bounds the length, so that a path that comes back on       *)
(* itself shows as one of fuel offsets.                                    *)
(***************************************************************************)
RECURSIVE PathFrom(_, _, _)
PathFrom(code, at, fuel) ==
    IF fuel = 0 \/ at >= Len(code) THEN <<>>
    ELSE <<at>> \o
         (IF At(code, at).op \in {"Line", "ChoiceSet", "Return"} THEN <<>>
          ELSE PathFrom(code,
                        IF At(code, at).op = "Jump" THEN At(code, at).target
                        ELSE at + 1,
                        fuel - 1))

\* The chain of Jumps is_at_end follows from offset at.
RECURSIVE JumpChain(_, _, _)
JumpChain(code, at, fuel) ==
    IF fuel = 0 \/ at >= Len(code) THEN <<>>
    ELSE <<at>> \o
         (IF At(code, at).op = "Jump"
            THEN JumpChain(code, At(code, at).target, fuel - 1)
            ELSE <<>>)

\* The path visits no offset twice and ends before the fuel does.
VisitsOnce(code, path) ==
    /\ Len(path) <= Len(code)
    /\ \A i, j \in 1..Len(path) : i < j => path[i] < path[j]

\* Every target of the code is after the instruction that holds it.
TargetsAhead(code) ==
    /\ \A o \in OffsetsOf(code, "Jump") : At(code, o).target > o
    /\ \A o \in OffsetsOf(code, "ChoiceSet") :
            \A i \in 1..Len(At(code, o).targets) :
                At(code, o).targets[i] > o

\* The offset at which the call enters the dispatch loop.
EntryOf(call) ==
    IF call.f = "select_choice" THEN At(At(chunk.code, ip).targets, call.index)
    ELSE ip

(***************************************************************************)
(* C31: in the compiled chunk every Jump target and ChoiceSet target is    *)
(* greater than the offset of its instruction, and every advance and       *)
(* select_choice call that runs the VM follows, from the offset it enters  *)
(* the dispatch loop at, a path that visits no instruction twice, and      *)
(* stops on it; the chain of Jumps is_at_end follows from where the call   *)
(* stops visits no instruction twice either.                               *)
(***************************************************************************)
RunsVisitOnce ==
    [][/\ TargetsAhead(chunk.code)
       /\ (last'.stepped /\ last'.result = OkR)
            => \E path \in {PathFrom(chunk.code, EntryOf(last'.call),
                                     Len(chunk.code) + 1)} :
                /\ VisitsOnce(chunk.code, path)
                /\ path # <<>>
                /\ ip' \in {Last(path), Last(path) + 1}
                /\ VisitsOnce(chunk.code,
                              JumpChain(chunk.code, ip',
                                        Len(chunk.code) + 1))
      ]_vars

\* A select_choice call ran a branch to its end and went through the Jump
\* to the gather point, to the Line that follows the choice set.
RanThroughJump ==
    /\ last.call.f = "select_choice" /\ last.stepped /\ last.result = OkR
    /\ current_line # None
    /\ \E o \in OffsetsOf(chunk.code, "Jump") :
            /\ ip > At(chunk.code, o).target
            /\ \E at \in OffsetsOf(chunk.code, "ChoiceSet") :
                    /\ at < o
                    /\ \E i \in 1..Len(At(chunk.code, at).targets) :
                        o \in {PathFrom(chunk.code,
                                        At(chunk.code, at).targets[i],
                                        Len(chunk.code) + 1)[n] :
                                 n \in 1..Len(PathFrom(chunk.code,
                                        At(chunk.code, at).targets[i],
                                        Len(chunk.code) + 1))}

(***************************************************************************)
(* The resolver on its own: Resolver::analyze followed statement by        *)
(* statement.  pending is what the walk has yet to do, first to last: a    *)
(* statement, the branch of a choice (push_scope, its statements,          *)
(* pop_scope), or the pop_scope that ends a branch, which remembers        *)
(* next_slot as it was at the push_scope.  The scripts are those the       *)
(* resolver matches on (resolver.rs 147-175): declarations of temps, of    *)
(* saves and of externs, assignments, lines and choice sets.               *)
(***************************************************************************)
MaxResolveLines == 3

ResolveKinds ==
    {[k |-> "Choice", name |-> ""]} \cup ChoiceKinds
        \cup {[k |-> k, name |-> n] :
                k \in {"Temp", "Save", "Extern", "Set", "Line"}, n \in Names}

RECURSIVE ResolveSources(_)
ResolveSources(n) ==
    IF n = 0 THEN {<<>>}
    ELSE LET shorter == ResolveSources(n - 1)
         IN shorter \cup
            UNION {{Append(p, l) : l \in NextLinesOf(p, ResolveKinds)} :
                        p \in {q \in shorter : Len(q) = n - 1}}

StmtItems(stmts) ==
    [i \in 1..Len(stmts) |-> [k |-> "Stmt", stmt |-> stmts[i]]]

BranchItems(choices) ==
    [i \in 1..Len(choices) |-> [k |-> "Branch", nested |-> choices[i].nested]]

PopItem(next_slot) == [k |-> "Pop", next_slot |-> next_slot]

\* No runtime yet: with_storage_and_host is at its call of analyze.
Resolving(src) ==
    /\ source = src
    /\ chunk = ChunkNew
    /\ overflow_checks = "unobserved"
    /\ ip = 0
    /\ stack = <<>>
    /\ storage = MemoryStorageNew
    /\ current_line = None
    /\ current_choices = None
    /\ is_done = FALSE
    /\ status = "resolving"
    /\ last = [call |-> NewCall, result |-> None, stepped |-> FALSE]
    /\ trace = <<>>
    /\ sels = <<>>
    /\ misuse = FALSE
    /\ errored = FALSE

ResolveInit ==
    /\ \E src \in ResolveSources(MaxResolveLines) :
            /\ Resolving(src)
            /\ pending = StmtItems(parse(src))
    /\ resolver = ResolverNew
    /\ scanner = ScannerNew(<<>>)
    /\ scanned = None
    /\ calls = 0

ResolveFrame ==
    UNCHANGED <<source, chunk, ip, stack, storage, current_line,
                current_choices, is_done, status, overflow_checks, last,
                trace, sels, misuse, errored, scanner, scanned, calls>>

\* resolve_stmt on a declaration, an assignment or a line
ResolveStmt ==
    /\ pending # <<>>
    /\ Head(pending).k = "Stmt"
    /\ Head(pending).stmt.k # "ChoiceSet"
    /\ resolver' = resolve_stmt(resolver, Head(pending).stmt)
    /\ pending' = Tail(pending)
    /\ ResolveFrame

\* resolve_stmt on a choice set: the texts of its choices; its branches
\* are next.
ResolveChoiceSet ==
    /\ pending # <<>>
    /\ Head(pending).k = "Stmt"
    /\ Head(pending).stmt.k = "ChoiceSet"
    /\ resolver' = resolve_choice_texts(resolver, Head(pending).stmt.choices)
    /\ pending' = BranchItems(Head(pending).stmt.choices) \o Tail(pending)
    /\ ResolveFrame

\* resolve_choice_branch: push_scope; the statements of the branch and its
\* pop_scope are next.
EnterBranch ==
    /\ pending # <<>>
    /\ Head(pending).k = "Branch"
    /\ resolver' = push_scope(resolver)
    /\ pending' = StmtItems(Head(pending).nested)
                    \o <<PopItem(resolver.next_slot)>> \o Tail(pending)
    /\ ResolveFrame

\* resolve_choice_branch: pop_scope
LeaveBranch ==
    /\ pending # <<>>
    /\ Head(pending).k = "Pop"
    /\ resolver' = pop_scope(resolver)
    /\ pending' = Tail(pending)
    /\ ResolveFrame

ResolveNext ==
    \/ ResolveStmt
    \/ ResolveChoiceSet
    \/ EnterBranch
    \/ LeaveBranch

SpecResolve == ResolveInit /\ [][ResolveNext]_vars

\* The lines that hold a VarRef or are an Assignment.
ReferenceLines(src) ==
    {j \in 1..Len(src) :
        \/ src[j].k = "Set"
        \/ src[j].k \in {"Line", "Choice"} /\ src[j].name # ""}

\* The classes of the declarations of the name of line j visible at line
\* j: a temp declared before it in a block that holds it, a save or an
\* extern declared before it anywhere.
VisibleClasses(src, j) ==
    {c \in {"temp", "save", "extern"} :
        \/ c = "temp" /\ TempsInScope(src, j, src[j].name) # {}
        \/ c = "save" /\ \E i \in 1..(j - 1) :
                            src[i].k = "Save" /\ src[i].name = src[j].name
        \/ c = "extern" /\ \E i \in 1..(j - 1) :
                            src[i].k = "Extern" /\ src[i].name = src[j].name}

\* The classes of the entries of the NodeId in the three maps.
EntryClasses(r, id) ==
    {c \in {"temp", "save", "extern"} :
        \/ c = "temp" /\ id \in DOMAIN r.bindings
        \/ c = "save" /\ id \in DOMAIN r.save_bindings
        \/ c = "extern" /\ id \in DOMAIN r.extern_bindings}

\* The NodeIds of the script, in source order, those of the declarations
\* included.
RECURSIVE NodeIdsOf(_), NodeIdsOfChoices(_)
NodeIdsOfParts(parts) ==
    IF Len(parts) = 2 THEN <<parts[2].id>> ELSE <<>>
NodeIdsOf(stmts) ==
    IF stmts = <<>> THEN <<>>
    ELSE (CASE Head(stmts).k = "Line" -> NodeIdsOfParts(Head(stmts).parts)
            [] Head(stmts).k = "ChoiceSet" ->
                    NodeIdsOfChoices(Head(stmts).choices)
            [] OTHER -> <<Head(stmts).id>>)
         \o NodeIdsOf(Tail(stmts))
NodeIdsOfChoices(choices) ==
    IF choices = <<>> THEN <<>>
    ELSE NodeIdsOfParts(Head(choices).parts)
            \o NodeIdsOf(Head(choices).nested)
            \o NodeIdsOfChoices(Tail(choices))

(***************************************************************************)
(* C32: when the resolution has ended without an error, the NodeId of      *)
(* every VarRef and of every Assignment has an entry in exactly one of     *)
(* bindings, save_bindings and extern_bindings, of the class of the one    *)
(* declaration of its name visible at that point, and no two occurrences   *)
(* of the script have the same NodeId.  The walk followed step by step     *)
(* ends in the state analyze returns.                                      *)
(***************************************************************************)
ReferencesBoundOnce ==
    (status = "resolving" /\ pending = <<>>) =>
        /\ resolver = analyze(parse(source))
        /\ resolver.errors = <<>> =>
            /\ \A j \in ReferenceLines(source) :
                /\ Cardinality(EntryClasses(resolver,
                                            NodeIdAt(source, j))) = 1
                /\ EntryClasses(resolver, NodeIdAt(source, j))
                        = VisibleClasses(source, j)
            /\ \E ids \in {NodeIdsOf(parse(source))} :
                /\ \A m, n \in 1..Len(ids) : m # n => ids[m] # ids[n]
                /\ Len(ids) = Cardinality({j \in 1..Len(source) :
                                                source[j].name # ""})

\* The resolution of a script ended without an error with an entry of
\* each class: a temp, a save and an extern are each read.
EachClassBound ==
    /\ status = "resolving" /\ pending = <<>>
    /\ resolver.errors = <<>>
    /\ \E j \in ReferenceLines(source) :
            NodeIdAt(source, j) \in DOMAIN resolver.extern_bindings
    /\ DOMAIN resolver.bindings # {} \/ DOMAIN resolver.save_bindings # {}

\* The slots of the temps held in the scope stack, scope by scope.
SlotsHeld(r) ==
    UNION {{r.scopes[i].variables[x].slot : x \in DOMAIN r.scopes[i].variables} :
                i \in 1..Len(r.scopes)}

\* The number of temps held in the scope stack.
RECURSIVE TempsHeld(_, _)
TempsHeld(r, i) ==
    IF i = 0 THEN 0
    ELSE Cardinality(DOMAIN r.scopes[i].variables) + TempsHeld(r, i - 1)

(***************************************************************************)
(* C33: at every point of the resolution the slots of the temps held in    *)
(* the scope stack are 0 .. next_slot - 1, each held once, and the         *)
(* pop_scope that ends a branch leaves next_slot as it was at the          *)
(* push_scope of the branch.                                               *)
(***************************************************************************)
SlotsContiguous ==
    [][/\ SlotsHeld(resolver) = 0..(resolver.next_slot - 1)
       /\ TempsHeld(resolver, Len(resolver.scopes)) = resolver.next_slot
       /\ SlotsHeld(resolver') = 0..(resolver'.next_slot - 1)
       /\ TempsHeld(resolver', Len(resolver'.scopes)) = resolver'.next_slot
       /\ (pending # <<>> /\ Head(pending).k = "Pop")
            => /\ resolver'.next_slot = Head(pending).next_slot
               /\ Len(resolver'.scopes) = Len(resolver.scopes) - 1
      ]_vars

\* A pop_scope has given back the slot of a temp declared in the branch,
\* a temp of the enclosing scope keeping its own.
SlotReclaimed ==
    /\ status = "resolving"
    /\ resolver.errors = <<>>
    /\ Len(resolver.scopes) = 1
    /\ resolver.next_slot = 1
    /\ Cardinality(DOMAIN resolver.bindings) = 2
    /\ \E id \in DOMAIN resolver.bindings : resolver.bindings[id] = 1

(***************************************************************************)
(* C34: at a Line or a Choice yielded past the gather point of a choice    *)
(* set, the temps declared in the branch taken are off the value stack:    *)
(* the stack holds one entry for each temp in scope at the line yielded,   *)
(* whichever choices were selected on the way.                             *)
(***************************************************************************)
BranchTempsOffStackAtGather ==
    (/\ status = "ready" /\ ~errored /\ ~misuse
     /\ trace # <<>>
     /\ current_line # None \/ current_choices # None)
        => Len(stack) = Cardinality(LiveTemps(source, Last(trace).pos))

\* current_choices() returns the empty slice.
ShownEmpty == current_choices_of(RT) = <<>>

(***************************************************************************)
(* C35: in every state of a runtime, is_waiting_for_choice() holds exactly *)
(* when current_choices() is not empty, and then has_more() is true and    *)
(* current_line() is the empty string.                                     *)
(***************************************************************************)
WaitingIffChoicesShown ==
    status \in {"ready", "failed", "panicked"} =>
        /\ is_waiting_for_choice <=> ~ShownEmpty
        /\ is_waiting_for_choice => (has_more /\ current_line_of(RT) = "")

\* The runtime waits again at a second choice set, after a selection that
\* yielded a line in between.
WaitingAgainAfterLine ==
    /\ status = "ready"
    /\ is_waiting_for_choice
    /\ Len(sels) > 0
    /\ \E n \in 1..Len(trace) : trace[n].k = "Line"
    /\ Last(trace).k = "Choice"

\* The call returned the RuntimeError InvalidChoiceIndex.
ReturnedInvalidIndex(call) ==
    /\ call.call.f = "select_choice"
    /\ call.result.k = "Err"
    /\ call.result.error.e = "InvalidChoiceIndex"

(***************************************************************************)
(* C36: a select_choice call that returns InvalidChoiceIndex leaves the    *)
(* runtime waiting at the same choice: is_waiting_for_choice() is still    *)
(* true, and current_choices(), current_line() and has_more() are as       *)
(* before the call.                                                        *)
(***************************************************************************)
InvalidIndexKeepsWaiting ==
    [][ReturnedInvalidIndex(last') =>
            /\ current_choices' # None
            /\ current_choices' = current_choices
            /\ current_line' = current_line
            /\ is_done' = is_done
      ]_vars

(***************************************************************************)
(* C37: through the facade, with advance and select_choice in any order,   *)
(* a call reaches VM::step or VM::select_and_continue only while           *)
(* has_more() is true and with ip an offset of the chunk, and no call      *)
(* ends with the dispatch loop indexing the code outside the chunk.        *)
(***************************************************************************)
DispatchWithinChunk ==
    [][/\ last'.stepped =>
            /\ ~is_done
            /\ ip \in 0..(Len(chunk.code) - 1)
       /\ last'.result # PanicR(CodeOutOfBounds)
      ]_vars

\* After the Done result, with ip past the end of the chunk, the host
\* called select_choice and the call did not reach the VM.
CalledAfterDone ==
    /\ status = "ready"
    /\ is_done
    /\ ip = Len(chunk.code)
    /\ last.call.f = "select_choice"
    /\ ~last.stepped

(***************************************************************************)
(* The temp declarations a run executes, read from the script along the    *)
(* selections: h is [sel, n, at, halt], the selections still to take, the  *)
(* declarations executed so far, their number at each yield, and whether   *)
(* the walk stands at a choice set with no selection left.                 *)
(***************************************************************************)
RECURSIVE TempsRun(_, _)
TempsRun(stmts, h) ==
    IF stmts = <<>> \/ h.halt THEN h
    ELSE
        CASE Head(stmts).k = "Temp" ->
                TempsRun(Tail(stmts), [h EXCEPT !.n = @ + 1])
          [] Head(stmts).k = "Line" ->
                TempsRun(Tail(stmts), [h EXCEPT !.at = Append(@, h.n)])
          [] Head(stmts).k = "ChoiceSet" ->
                IF h.sel = <<>> \/ Head(h.sel) >= Len(Head(stmts).choices)
                    THEN [h EXCEPT !.at = Append(@, h.n), !.halt = TRUE]
                    ELSE TempsRun(
                            Tail(stmts),
                            TempsRun(
                                Head(stmts).choices[Head(h.sel) + 1].nested,
                                [h EXCEPT !.at = Append(@, h.n),
                                          !.sel = Tail(@)]))
          [] OTHER -> TempsRun(Tail(stmts), h)

(***************************************************************************)
(* C38: at every pause of a run driven with valid selections and without   *)
(* a RuntimeError, the value stack holds one entry for each temp           *)
(* declaration executed so far and nothing else: every operand of a text,  *)
(* of a declaration or of an assignment has been consumed.                 *)
(***************************************************************************)
StackHoldsTempsOnly ==
    (status = "ready" /\ ~misuse /\ ~errored) =>
        /\ \A i \in 1..Len(stack) : stack[i].t = "Number"
        /\ \E h \in {TempsRun(parse(source),
                              [sel |-> sels, n |-> 0, at |-> <<>>,
                               halt |-> FALSE])} :
                IF current_line # None \/ current_choices # None
                    THEN /\ Len(h.at) >= Len(trace)
                         /\ Len(stack) = h.at[Len(trace)]
                    ELSE Len(stack) = h.n

\* After a selection, a run is paused at a line that shows a variable,
\* after an assignment, with the entry of one temp on the stack.
PausedAfterAssignment ==
    /\ status = "ready" /\ ~misuse /\ ~errored
    /\ sels # <<>>
    /\ current_line # None
    /\ Len(stack) = 1
    /\ source[Last(trace).pos].name # ""
    /\ \E j \in 1..(Last(trace).pos - 1) : source[j].k = "Set"

(***************************************************************************)
(* C39: a select_choice call made while is_waiting_for_choice() is false   *)
(* returns Ok whatever its index and changes nothing: the VM does not run, *)
(* and current_line, current_choices, has_more, the VM and the storage     *)
(* are as before the call.                                                 *)
(***************************************************************************)
SelectWhenNotWaitingIsNoOp ==
    [][(last'.call.f = "select_choice" /\ ~is_waiting_for_choice) =>
            /\ last'.result = OkR
            /\ ~last'.stepped
            /\ UNCHANGED <<ip, stack, storage, current_line, current_choices,
                           is_done, status, trace>>
      ]_vars

\* The host called select_choice with an index other than 0 while a line
\* was shown and more was to come, and the call did nothing.
SelectedAtLine ==
    /\ status = "ready"
    /\ last.call.f = "select_choice" /\ last.call.index > 0
    /\ ~last.stepped
    /\ current_line # None
    /\ ~is_done

=============================================================================
